---- MODULE Spec2Model ----
(***************************************************************************)
(* Model of the handler-reference resolution engine of the SST analyzer:   *)
(* the validator (packages/analyzer/src/lib/validator.ts), the project     *)
(* file scanner in its two variants (packages/analyzer/src/lib/            *)
(* fileScanner.ts: findworkspaceRoot, and the cached findSstRoot variant)  *)
(* and the glob matcher.                                                   *)
(*                                                                         *)
(* Strings are sequences of one-character strings, so that lastIndexOf,    *)
(* substring, includes, split and toLowerCase are computed character by    *)
(* character as the code does.  Index results are 1-based; 0 stands for    *)
(* JavaScript's -1.                                                        *)
(***************************************************************************)
EXTENDS Integers, Sequences, FiniteSets, TLC

\* validateFile (validator.ts:83-122)
VARIABLES
    vCatalog,     \* availableHandlers handed to validateFile
    vContexts,    \* contexts analyzeHandlerContexts returned for the file
    vReadable,    \* whether fs.promises.readFile(filePath) succeeded
    vErrors,      \* the ValidationError[] validateFile resolved to
    vCalled       \* validateFile has been called at least once

\* matchesPattern (fileScanner.ts:205-266)
VARIABLES
    gPath,        \* filePath argument of matchesPattern
    gPattern,     \* pattern argument of matchesPattern
    gResult,      \* value matchesPattern returned
    gCalled       \* matchesPattern has been called

\* the file system
VARIABLES
    disk,         \* directories, marker files, tsconfig.json files, sources
    cwd,          \* process.cwd(), which relative paths resolve against
    fsChanges     \* number of file-system changes so far

\* FileScanner of fileScanner.ts:12-423
VARIABLES
    s1,           \* the scanner instance: workspaceRoot and tsConfig
    op,           \* the last step: a call on the scanner or a disk change
    res           \* what the last call resolved to, or that it rejected

\* FileScanner of fileScanner.ts:436-825
VARIABLES
    s2,           \* the scanner instance: sstRoot and tsConfig
    op2,          \* the last step: a call on the scanner or a disk change
    res2          \* what the last call resolved to

\* SSTValidator.validateProject (validator.ts:26-81)
VARIABLES
    pScanner,     \* this.fileScanner of the validator
    pPc,          \* where validateProject stands: idle, scanning or done
    pConfig,      \* the config of the call under way
    pResult       \* the ValidationResult of the last call that returned

\* shouldIncludeFile (fileScanner.ts:168-203)
VARIABLES
    iScanner,     \* the scanner instance the method is called on
    iRel,         \* the segments of the file's path below the workspace root
    iResult,      \* value shouldIncludeFile returned
    iCalled       \* shouldIncludeFile has been called

\* ASTAnalyzer.analyzeHandlerContexts (astAnalyzer.ts:6-51)
VARIABLES
    aFile,        \* the parsed source file handed to analyzeHandlerContexts
    aContexts,    \* the SSTHandlerContext[] it returned
    aCalled       \* analyzeHandlerContexts has been called

\* parseExportedFunctions (fileScanner.ts:276-338)
VARIABLES
    eFile,        \* the parsed source file
    eExports,     \* the names parseExportedFunctions returned
    eCalled       \* parseExportedFunctions has been called

\* isFunction (fileScanner.ts:340-374)
VARIABLES
    fNode,        \* the initializer expression handed to isFunction
    fResult,      \* value isFunction returned
    fCalled       \* isFunction has been called

\* analyzeUsageStatistics (statisticsAnalyzer.ts:17-101)
VARIABLES
    uConfig,      \* findProjectConfig() found a project
    uHandlers,    \* the catalog scanHandlers() resolved to
    uFiles,       \* the files findAllTypeScriptFiles walked, with their contexts
    uStats,       \* the UsageStatistics returned, or the null result
    uCalled       \* analyzeUsageStatistics has been called

\* the CLI command validate (cli/index.ts:16-77, 250-258)
VARIABLES
    cInvocation,  \* "commander": run from the command line; "direct": called by code
    cOptions,     \* the first argument of validateCommand
    cLoaded,      \* the project's typescript module could be loaded
    cResult,      \* what validator.validateProject() resolves to
    cOutput,      \* the lines written to stdout and stderr
    cExit,        \* how the process ended, if it has
    cCalled       \* validateCommand has run

\* SSTCompletionProvider.refreshHandlers (completionProvider.ts:21-27)
VARIABLES
    rScanner,     \* this.fileScanner of the completion provider
    rCalls,       \* the refreshHandlers calls so far, each with its position
    rCachedOf     \* the call whose array this.cachedHandlers is; 0: the initial []

\* the file selections of the validator and of the scanner
\* (validator.ts:203-257, fileScanner.ts:168-203)
VARIABLES
    qRel,         \* the segments of a .ts file's path below the project root
    qInclude,     \* the include patterns
    qExclude,     \* the exclude patterns
    qValidator,   \* the file is pushed by findAllTypeScriptFiles
    qScanner,     \* shouldIncludeFile returned true for the file
    qCalled       \* both selections have been made

\* findSimilarPaths (validator.ts:172-183)
VARIABLES
    mTarget,      \* the target argument
    mAvailable,   \* the availablePaths argument
    mSimilar,     \* the paths findSimilarPaths returned
    mCalled       \* findSimilarPaths has been called

\* resolveHandlerLocation next to validateHandlerPath
\* (definitionProvider.ts:43-72, validator.ts:124-170)
VARIABLES
    lCatalog,     \* the catalog both scans return
    lPath,        \* the handler path under the cursor
    lError,       \* what validateHandlerPath returned for it
    lLocation,    \* what resolveHandlerLocation returned for it
    lValidated,   \* validateHandlerPath has been called
    lResolved     \* resolveHandlerLocation has been called

\* calculateSimilarity (validator.ts:185-201)
VARIABLES
    kA, kB, kC,   \* the strings compared: a with b and a with c
    kAB, kAC,     \* calculateSimilarity(a, b) and calculateSimilarity(a, c)
    kDoneB, kDoneC

\* SSTDiagnosticProvider.validateDocument and
\* SSTCodeActionProvider.provideCodeActions on one document
\* (diagnosticProvider.ts:17-96, codeActionProvider.ts:6-144)
VARIABLES
    nLanguageId,  \* document.languageId
    nCatalog,     \* what scanHandlers returns
    nContexts,    \* the handler contexts of the document, saved as it is
    nReadable,    \* the validator can read the file
    nDiagnostics, \* diagnosticCollection.get(document.uri)
    nCalled,      \* validateDocument has returned
    nAsked,       \* the diagnostic code actions were requested for, or 0
    nActions      \* what provideCodeActions returned

\* concurrent runs of validateDocument on one document
\* (diagnosticProvider.ts:17-45, 98-105; setupEventHandlers)
VARIABLES
    wBuffer,      \* the handler contexts of the text in the editor
    wFile,        \* the handler contexts of the file on disk
    wCatalog,     \* the handlers on disk: what a scan reads
    wRuns,        \* the runs of validateDocument in the order they started
    wCollection   \* diagnosticCollection.get(document.uri)

vvars == <<vCatalog, vContexts, vReadable, vErrors, vCalled>>
gvars == <<gPath, gPattern, gResult, gCalled>>
dvars == <<disk, cwd, fsChanges>>
s1vars == <<s1, op, res>>
s2vars == <<s2, op2, res2>>
pvars == <<pScanner, pPc, pConfig, pResult>>
ivars == <<iScanner, iRel, iResult, iCalled>>
avars == <<aFile, aContexts, aCalled>>
evars == <<eFile, eExports, eCalled>>
fvars == <<fNode, fResult, fCalled>>
uvars == <<uConfig, uHandlers, uFiles, uStats, uCalled>>
cvars == <<cInvocation, cOptions, cLoaded, cResult, cOutput, cExit, cCalled>>
rvars == <<rScanner, rCalls, rCachedOf>>
qvars == <<qRel, qInclude, qExclude, qValidator, qScanner, qCalled>>
mvars == <<mTarget, mAvailable, mSimilar, mCalled>>
lvars == <<lCatalog, lPath, lError, lLocation, lValidated, lResolved>>
kvars == <<kA, kB, kC, kAB, kAC, kDoneB, kDoneC>>
nvars == <<nLanguageId, nCatalog, nContexts, nReadable, nDiagnostics, nCalled, nAsked, nActions>>
wvars == <<wBuffer, wFile, wCatalog, wRuns, wCollection>>
xvars == <<ivars, avars, evars, fvars, uvars, cvars, rvars, qvars, mvars, lvars, kvars, nvars, wvars>>
corevars == <<vvars, gvars, dvars, s1vars, s2vars, pvars>>
\* the parts other than the one named
exceptI == <<corevars, avars, evars, fvars, uvars, cvars, rvars, qvars, mvars, lvars, kvars, nvars, wvars>>
exceptA == <<corevars, ivars, evars, fvars, uvars, cvars, rvars, qvars, mvars, lvars, kvars, nvars, wvars>>
exceptE == <<corevars, ivars, avars, fvars, uvars, cvars, rvars, qvars, mvars, lvars, kvars, nvars, wvars>>
exceptF == <<corevars, ivars, avars, evars, uvars, cvars, rvars, qvars, mvars, lvars, kvars, nvars, wvars>>
exceptU == <<corevars, ivars, avars, evars, fvars, cvars, rvars, qvars, mvars, lvars, kvars, nvars, wvars>>
exceptC == <<corevars, ivars, avars, evars, fvars, uvars, rvars, qvars, mvars, lvars, kvars, nvars, wvars>>
exceptR == <<corevars, ivars, avars, evars, fvars, uvars, cvars, qvars, mvars, lvars, kvars, nvars, wvars>>
exceptQ == <<corevars, ivars, avars, evars, fvars, uvars, cvars, rvars, mvars, lvars, kvars, nvars, wvars>>
exceptM == <<corevars, ivars, avars, evars, fvars, uvars, cvars, rvars, qvars, lvars, kvars, nvars, wvars>>
exceptL == <<corevars, ivars, avars, evars, fvars, uvars, cvars, rvars, qvars, mvars, kvars, nvars, wvars>>
exceptK == <<corevars, ivars, avars, evars, fvars, uvars, cvars, rvars, qvars, mvars, lvars, nvars, wvars>>
exceptN == <<corevars, ivars, avars, evars, fvars, uvars, cvars, rvars, qvars, mvars, lvars, kvars, wvars>>
exceptW == <<corevars, ivars, avars, evars, fvars, uvars, cvars, rvars, qvars, mvars, lvars, kvars, nvars>>
\* the parts other than the disk and the completion provider
exceptDR == <<vvars, gvars, s1vars, s2vars, pvars, ivars, avars, evars, fvars, uvars, cvars, qvars, mvars, lvars, kvars, nvars, wvars>>
vars == <<vvars, gvars, dvars, s1vars, s2vars, pvars, xvars>>

\* no call has returned yet
NoResult == [status |-> "none", value |-> <<>>]

\* each part is exercised on its own: the parts at rest keep these values
IdleV == vCatalog = <<>> /\ vContexts = <<>> /\ vReadable = TRUE
         /\ vErrors = <<>> /\ vCalled = FALSE
IdleG == gPath = <<>> /\ gPattern = <<>> /\ gResult = FALSE /\ gCalled = FALSE
IdleD == disk = <<>> /\ cwd = <<>> /\ fsChanges = 0
IdleS1 == s1 = <<>> /\ op = "idle" /\ res = NoResult
IdleS2 == s2 = <<>> /\ op2 = "idle" /\ res2 = NoResult
IdleP == pScanner = <<>> /\ pPc = "off" /\ pConfig = <<>> /\ pResult = NoResult
IdleI == iScanner = <<>> /\ iRel = <<>> /\ iResult = FALSE /\ iCalled = FALSE
IdleA == aFile = <<>> /\ aContexts = <<>> /\ aCalled = FALSE
IdleCore == IdleV /\ IdleG /\ IdleD /\ IdleS1 /\ IdleS2 /\ IdleP
IdleE == eFile = <<>> /\ eExports = <<>> /\ eCalled = FALSE
IdleF == fNode = <<>> /\ fResult = FALSE /\ fCalled = FALSE
IdleU ==
    /\ uConfig = FALSE /\ uHandlers = <<>> /\ uFiles = <<>>
    /\ uStats = [isNull |-> TRUE] /\ uCalled = FALSE
IdleC ==
    /\ cInvocation = "direct" /\ cOptions = [given |-> FALSE] /\ cLoaded = FALSE
    /\ cResult = <<>> /\ cOutput = <<>>
    /\ cExit = [ended |-> FALSE] /\ cCalled = FALSE
IdleR ==
    /\ rScanner = <<>> /\ rCalls = <<>> /\ rCachedOf = 0
IdleQ ==
    /\ qRel = <<>> /\ qInclude = <<>> /\ qExclude = <<>>
    /\ qValidator = FALSE /\ qScanner = FALSE /\ qCalled = FALSE
IdleM ==
    /\ mTarget = <<>> /\ mAvailable = <<>> /\ mSimilar = <<>> /\ mCalled = FALSE
IdleL ==
    /\ lCatalog = <<>> /\ lPath = <<>> /\ lError = <<>> /\ lLocation = <<>>
    /\ lValidated = FALSE /\ lResolved = FALSE
IdleK ==
    /\ kA = <<>> /\ kB = <<>> /\ kC = <<>> /\ kAB = <<>> /\ kAC = <<>>
    /\ kDoneB = FALSE /\ kDoneC = FALSE
IdleN ==
    /\ nLanguageId = <<>> /\ nCatalog = <<>> /\ nContexts = <<>> /\ nReadable = FALSE
    /\ nDiagnostics = <<>> /\ nCalled = FALSE /\ nAsked = 0 /\ nActions = <<>>
IdleW ==
    /\ wBuffer = <<>> /\ wFile = <<>> /\ wCatalog = <<>> /\ wRuns = <<>> /\ wCollection = <<>>
IdleX == IdleI /\ IdleA /\ IdleE /\ IdleF /\ IdleU /\ IdleC /\ IdleR /\ IdleQ /\ IdleM /\ IdleL /\ IdleK /\ IdleN /\ IdleW

----------------------------------------------------------------------------
\* Bounds

MaxContexts == 2

----------------------------------------------------------------------------
\* String primitives (String.prototype.*)

NULL == <<"<null>">>

UpperLetters == <<"A","B","C","D","E","F","G","H","I","J","K","L","M",
                  "N","O","P","Q","R","S","T","U","V","W","X","Y","Z">>
LowerLetters == <<"a","b","c","d","e","f","g","h","i","j","k","l","m",
                  "n","o","p","q","r","s","t","u","v","w","x","y","z">>

LowerChar(c) ==
    IF \E i \in 1..26 : UpperLetters[i] = c
    THEN LowerLetters[CHOOSE i \in 1..26 : UpperLetters[i] = c]
    ELSE c

ToLowerCase(s) == [i \in 1..Len(s) |-> LowerChar(s[i])]

\* s.lastIndexOf(c), 1-based; 0 when c does not occur
LastIndexOf(s, c) ==
    IF \E i \in 1..Len(s) : s[i] = c
    THEN CHOOSE i \in 1..Len(s) : s[i] = c /\ \A j \in (i+1)..Len(s) : s[j] # c
    ELSE 0

\* s.includes(t)
Includes(s, t) ==
    \E i \in 0..(Len(s) - Len(t)) : SubSeq(s, i + 1, i + Len(t)) = t

\* s.endsWith(t)
EndsWith(s, t) == Len(t) <= Len(s) /\ SubSeq(s, Len(s) - Len(t) + 1, Len(s)) = t

CharSet(s) == { s[i] : i \in 1..Len(s) }

MaxOf(a, b) == IF a >= b THEN a ELSE b
MinOf(a, b) == IF a <= b THEN a ELSE b

\* arr.slice(0, n)
Slice(arr, n) == SubSeq(arr, 1, MinOf(n, Len(arr)))

Range(f) == { f[i] : i \in DOMAIN f }

RECURSIVE Join(_, _)
\* arr.join(sep) on strings
Join(arr, sep) ==
    IF Len(arr) = 0 THEN <<>>
    ELSE IF Len(arr) = 1 THEN arr[1]
    ELSE arr[1] \o sep \o Join(Tail(arr), sep)

RECURSIVE Flatten(_)
\* the concatenation of a sequence of arrays
Flatten(arrs) ==
    IF Len(arrs) = 0 THEN << >>
    ELSE IF Len(arrs) = 1 THEN arrs[1]
    ELSE Flatten(SubSeq(arrs, 1, Len(arrs) \div 2))
         \o Flatten(SubSeq(arrs, (Len(arrs) \div 2) + 1, Len(arrs)))

RECURSIVE Dedup(_)
\* Array.from(new Set(arr)): first occurrences, insertion order
Dedup(arr) ==
    IF Len(arr) = 0 THEN <<>>
    ELSE LET rest == Dedup(SubSeq(arr, 1, Len(arr) - 1))
             x    == arr[Len(arr)]
         IN IF \E i \in 1..Len(rest) : rest[i] = x THEN rest ELSE Append(rest, x)

----------------------------------------------------------------------------
\* Similarity scores are rationals [n, d] with d > 0; the code compares
\* quotients of small integers, for which the double comparison and the
\* exact comparison agree.

RatGt(p, q) == p.n * q.d > q.n * p.d
RatEq(p, q) == p.n * q.d = q.n * p.d

SimilarityThreshold == [n |-> 2, d |-> 5]    \* 0.4

calculateSimilarity(str1, str2) ==
    IF str1 = str2 THEN [n |-> 1, d |-> 1]
    ELSE IF Len(str1) = 0 \/ Len(str2) = 0 THEN [n |-> 0, d |-> 1]
    ELSE IF Includes(str1, str2) \/ Includes(str2, str1)
         \* Math.max(len2/len1, len1/len2) * 0.8
         THEN [n |-> MaxOf(Len(str1), Len(str2)) * 4,
               d |-> MinOf(Len(str1), Len(str2)) * 5]
    ELSE LET set1 == CharSet(str1)
             set2 == CharSet(str2)
         IN [n |-> Cardinality(set1 \cap set2),
             d |-> MaxOf(Cardinality(set1), Cardinality(set2))]

RECURSIVE InsertDesc(_, _)
\* insert item after every element that does not rank strictly below it
InsertDesc(sorted, item) ==
    IF Len(sorted) = 0 THEN <<item>>
    ELSE IF RatGt(item.similarity, sorted[1].similarity)
         THEN <<item>> \o sorted
         ELSE <<sorted[1]>> \o InsertDesc(Tail(sorted), item)

RECURSIVE SortDesc(_)
\* Array.prototype.sort((a, b) => b.similarity - a.similarity), stable
SortDesc(items) ==
    IF Len(items) = 0 THEN <<>>
    ELSE InsertDesc(SortDesc(SubSeq(items, 1, Len(items) - 1)), items[Len(items)])

\* .filter((item) => item.similarity > 0.4)
FilterSimilar(items) ==
    LET F[i \in 0..Len(items)] ==
            IF i = 0 THEN <<>>
            ELSE IF RatGt(items[i].similarity, SimilarityThreshold)
                 THEN Append(F[i-1], items[i]) ELSE F[i-1]
    IN F[Len(items)]

findSimilarPaths_Unsorted(target, availablePaths) ==
    LET targetLower == ToLowerCase(target)
        scored == [i \in 1..Len(availablePaths) |->
                     [path |-> availablePaths[i],
                      similarity |-> calculateSimilarity(targetLower,
                                        ToLowerCase(availablePaths[i]))]]
        ranked == FilterSimilar(scored)
    IN [i \in 1..Len(ranked) |-> ranked[i].path]

findSimilarPaths(target, availablePaths) ==
    LET targetLower == ToLowerCase(target)
        scored == [i \in 1..Len(availablePaths) |->
                     [path |-> availablePaths[i],
                      similarity |-> calculateSimilarity(targetLower,
                                        ToLowerCase(availablePaths[i]))]]
        ranked == SortDesc(FilterSimilar(scored))
    IN [i \in 1..Len(ranked) |-> ranked[i].path]

----------------------------------------------------------------------------
\* Validator

NoError == [type |-> "none"]

\* availableHandlers.find((h) => h.relativePath === filePathPart): index or 0
FindHandler(availableHandlers, filePathPart) ==
    IF \E i \in 1..Len(availableHandlers) :
           availableHandlers[i].relativePath = filePathPart
    THEN CHOOSE i \in 1..Len(availableHandlers) :
           /\ availableHandlers[i].relativePath = filePathPart
           /\ \A j \in 1..(i-1) : availableHandlers[j].relativePath # filePathPart
    ELSE 0

\* validator.ts:134-139
InvalidFormatError(filePath, handlerPath) ==
    [type |-> "invalid-format",
     message |-> <<"Invalid handler format: \"">> \o handlerPath
                 \o <<"\". Expected format: \"path/to/file.functionName\"">>,
     filePath |-> filePath, handlerPath |-> handlerPath,
     hasSuggestions |-> FALSE, suggestions |-> <<>>]

\* validator.ts:147-154
FileNotFoundError(filePath, handlerPath, filePathPart, availablePaths) ==
    LET suggestions == findSimilarPaths(filePathPart, availablePaths)
    IN [type |-> "file-not-found",
        message |-> <<"Handler file not found: \"">> \o filePathPart
                    \o <<".ts\". Make sure the file exists in your project.">>,
        filePath |-> filePath, handlerPath |-> handlerPath,
        hasSuggestions |-> TRUE, suggestions |-> Slice(suggestions, 3)]

FunctionNotFoundError_Three(filePath, handlerPath, filePathPart, functionName, handler) ==
    [type |-> "function-not-found",
     message |-> <<"Function \"">> \o functionName \o <<"\" not found in \"">>
                 \o filePathPart \o <<".ts\". Available functions: ">>
                 \o Join(Slice(handler.exportedFunctions, 3), <<",", " ">>),
     filePath |-> filePath, handlerPath |-> handlerPath,
     hasSuggestions |-> TRUE, suggestions |-> Slice(handler.exportedFunctions, 3)]

\* validator.ts:160-166
FunctionNotFoundError(filePath, handlerPath, filePathPart, functionName, handler) ==
    [type |-> "function-not-found",
     message |-> <<"Function \"">> \o functionName \o <<"\" not found in \"">>
                 \o filePathPart \o <<".ts\". Available functions: ">>
                 \o Join(handler.exportedFunctions, <<",", " ">>),
     filePath |-> filePath, handlerPath |-> handlerPath,
     hasSuggestions |-> TRUE, suggestions |-> Slice(handler.exportedFunctions, 5)]

validateHandlerPath(filePath, context, availablePaths, availableHandlers) ==
    LET handlerPath  == context.expectedPath
        lastDotIndex == LastIndexOf(handlerPath, ".")
        filePathPart == SubSeq(handlerPath, 1, lastDotIndex - 1)
        functionName == SubSeq(handlerPath, lastDotIndex + 1, Len(handlerPath))
        h            == FindHandler(availableHandlers, filePathPart)
    IN IF lastDotIndex = 0
       THEN InvalidFormatError(filePath, handlerPath)
       ELSE IF ~ \E i \in 1..Len(availablePaths) : availablePaths[i] = filePathPart
       THEN FileNotFoundError(filePath, handlerPath, filePathPart, availablePaths)
       ELSE IF h # 0 /\ ~ \E k \in 1..Len(availableHandlers[h].exportedFunctions) :
                            availableHandlers[h].exportedFunctions[k] = functionName
       THEN FunctionNotFoundError(filePath, handlerPath, filePathPart, functionName,
                                  availableHandlers[h])
       ELSE NoError

\* JavaScript truthiness of context.expectedPath (string | null)
Truthy(expectedPath) == expectedPath # NULL /\ Len(expectedPath) > 0

validateFile(filePath, readable, contexts, availableHandlers) ==
    IF ~ readable
    THEN <<[type |-> "file-not-found",
            message |-> <<"Error reading file: ">>,
            filePath |-> filePath, handlerPath |-> <<>>,
            hasSuggestions |-> FALSE, suggestions |-> <<>>]>>
    ELSE LET availablePaths ==
                 Dedup([i \in 1..Len(availableHandlers) |->
                          availableHandlers[i].relativePath])
             E[i \in 0..Len(contexts)] ==
                 IF i = 0 THEN <<>>
                 ELSE IF ~ Truthy(contexts[i].expectedPath) THEN E[i-1]
                 ELSE LET error == validateHandlerPath(filePath, contexts[i],
                                        availablePaths, availableHandlers)
                      IN IF error # NoError THEN Append(E[i-1], error) ELSE E[i-1]
         IN E[Len(contexts)]

----------------------------------------------------------------------------
\* Inputs of the validator: handler paths, catalogs and context lists

sEmpty            == <<>>
sNoDot            == <<"f","/","u">>
sFuA              == <<"f","/","u",".","a">>
sFuH              == <<"f","/","u",".","h">>
sFxH              == <<"f","/","x",".","h">>
sFxyDot           == <<"f","/","x","/","y",".">>
sAbH              == <<"a",".","b",".","h">>
sAB               == <<"a",".","b">>
sUplodHandler     == <<"f","u","n","c","t","i","o","n","s","/","u","p","l","o","d",".","h","a","n","d","l","e","r">>
sUploadHandler    == <<"f","u","n","c","t","i","o","n","s","/","u","p","l","o","a","d",".","h","a","n","d","l","e","r">>
sUploadX          == <<"f","u","n","c","t","i","o","n","s","/","u","p","l","o","a","d",".","x">>
sFunctionsUpload  == <<"f","u","n","c","t","i","o","n","s","/","u","p","l","o","a","d">>
sFunctionsDetails == <<"f","u","n","c","t","i","o","n","s","/","d","e","t","a","i","l","s">>
sHandler          == <<"h","a","n","d","l","e","r">>

ExpectedPaths ==
    { NULL, sEmpty, sNoDot, sFuA, sFuH, sFxH, sFxyDot, sAbH, sAB,
      sUplodHandler, sUploadHandler, sUploadX }

HandlerInfo(rel, fns) ==
    [filePath |-> <<"/", "r", "/">> \o rel \o <<".", "t", "s">>,
     relativePath |-> rel, exportedFunctions |-> fns]

CatEmpty == <<>>

CatExample ==
    << HandlerInfo(sFunctionsUpload, <<sHandler>>),
       HandlerInfo(sFunctionsDetails, <<sHandler>>) >>

CatMain ==
    << HandlerInfo(<<"z","z">>, << <<"h">> >>),
       HandlerInfo(<<"f","/","u","v">>, << <<"h">> >>),
       HandlerInfo(<<"f","/","u">>, << <<"a">>, <<"b">>, <<"c">>, <<"d">>, <<"e">>, <<"g">> >>),
       HandlerInfo(<<"F","/","X">>, << <<"h">> >>),
       HandlerInfo(<<"f","/","x","/","y">>, << <<"h">>, <<"h","h">> >>),
       HandlerInfo(<<"a",".","b">>, << <<"h">> >>) >>

Catalogs == { CatEmpty, CatExample, CatMain }

SourceFile == <<"infra.ts">>

RECURSIVE SeqsUpTo(_, _)
SeqsUpTo(S, n) ==
    IF n = 0 THEN { <<>> }
    ELSE LET shorter == SeqsUpTo(S, n - 1)
         IN shorter \cup { Append(q, x) : q \in shorter, x \in S }

\* the contexts of one file: document order, positions increasing
ContextLists ==
    { [i \in 1..Len(ps) |->
          [type |-> "function", position |-> 10 * i, expectedPath |-> ps[i]]]
      : ps \in SeqsUpTo(ExpectedPaths, MaxContexts) }

----------------------------------------------------------------------------
\* validateFile as an operation

InitV ==
    /\ vCatalog \in Catalogs
    /\ vContexts \in ContextLists
    /\ vReadable \in BOOLEAN
    /\ vErrors = <<>>
    /\ vCalled = FALSE
    /\ IdleG /\ IdleD /\ IdleS1 /\ IdleS2 /\ IdleP /\ IdleX

\* one call validateFile(filePath, availableHandlers) on the drawn inputs
ValidateFile ==
    /\ ~ vCalled
    /\ vErrors' = validateFile(SourceFile, vReadable, vContexts, vCatalog)
    /\ vCalled' = TRUE
    /\ UNCHANGED <<vCatalog, vContexts, vReadable>>
    /\ UNCHANGED <<gvars, dvars, s1vars, s2vars, pvars, xvars>>

NextV == ValidateFile

----------------------------------------------------------------------------
\* GlobMatcher: FileScanner.matchesPattern / matchParts / matchSinglePart

\* segments of the paths and of the patterns handed to matchesPattern
MaxPathSegs == 3
MaxPatternSegs == 3

\* s.replace(/\\/g, "/")
NormalizeSlashes(s) == [i \in 1..Len(s) |-> IF s[i] = "\\" THEN "/" ELSE s[i]]

RECURSIVE Split(_, _)
\* s.split(sep) for a one-character separator; "" splits to [""]
Split(s, sep) ==
    IF \E i \in 1..Len(s) : s[i] = sep
    THEN LET k == CHOOSE i \in 1..Len(s) :
                     s[i] = sep /\ \A j \in 1..(i-1) : s[j] # sep
         IN <<SubSeq(s, 1, k - 1)>> \o Split(SubSeq(s, k + 1, Len(s)), sep)
    ELSE <<s>>

RECURSIVE RegexMatchHere(_, _, _, _)
\* does the pattern from position i on match s starting at position j;
\* '*' stands for the regex ".*" it was replaced by, '.' is the regex dot,
\* every other character of the modelled alphabet is a literal
RegexMatchHere(pattern, i, s, j) ==
    IF i > Len(pattern) THEN TRUE
    ELSE IF pattern[i] = "*"
         THEN \E k \in j..(Len(s) + 1) : RegexMatchHere(pattern, i + 1, s, k)
    ELSE IF j > Len(s) THEN FALSE
    ELSE IF pattern[i] = "." THEN RegexMatchHere(pattern, i + 1, s, j + 1)
    ELSE s[j] = pattern[i] /\ RegexMatchHere(pattern, i + 1, s, j + 1)

\* new RegExp(pattern.replace(/\*/g, ".*")).test(filePart): unanchored search
RegexTest(pattern, filePart) ==
    \E start \in 1..(Len(filePart) + 1) : RegexMatchHere(pattern, 1, filePart, start)

matchSinglePart(filePart, pattern) ==
    IF pattern = <<"*">> THEN TRUE
    ELSE IF \E i \in 1..Len(pattern) : pattern[i] = "*"
         THEN RegexTest(pattern, filePart)
    ELSE filePart = pattern

StarStar == <<"*", "*">>

RECURSIVE matchParts_OneOrMore(_, _, _, _)
matchParts_OneOrMore(fileParts, patternParts, fileIndex, patternIndex) ==
    IF patternIndex = Len(patternParts) THEN fileIndex = Len(fileParts)
    ELSE IF fileIndex = Len(fileParts)
         THEN \A i \in (patternIndex + 1)..Len(patternParts) : patternParts[i] = StarStar
    ELSE IF patternParts[patternIndex + 1] = StarStar
         THEN matchParts_OneOrMore(fileParts, patternParts, fileIndex + 1, patternIndex)
    ELSE /\ matchSinglePart(fileParts[fileIndex + 1], patternParts[patternIndex + 1])
         /\ matchParts_OneOrMore(fileParts, patternParts, fileIndex + 1, patternIndex + 1)

RECURSIVE matchParts(_, _, _, _)
\* fileIndex and patternIndex are the code's 0-based indices
matchParts(fileParts, patternParts, fileIndex, patternIndex) ==
    IF patternIndex = Len(patternParts) THEN fileIndex = Len(fileParts)
    ELSE IF fileIndex = Len(fileParts)
         THEN \A i \in (patternIndex + 1)..Len(patternParts) : patternParts[i] = StarStar
    ELSE IF patternParts[patternIndex + 1] = StarStar
         THEN IF matchParts(fileParts, patternParts, fileIndex, patternIndex + 1)
              THEN TRUE
              ELSE matchParts(fileParts, patternParts, fileIndex + 1, patternIndex)
    ELSE IF matchSinglePart(fileParts[fileIndex + 1], patternParts[patternIndex + 1])
         THEN matchParts(fileParts, patternParts, fileIndex + 1, patternIndex + 1)
         ELSE FALSE

matchesPattern(filePath, pattern) ==
    LET normalizedPattern == NormalizeSlashes(pattern)
        parts     == Split(normalizedPattern, "/")
        fileParts == Split(filePath, "/")
    IN matchParts(fileParts, parts, 0, 0)

\* Inputs of the glob matcher

gA      == <<"a">>
gB      == <<"b">>
gX      == <<"x">>
gY      == <<"y">>
gBts    == <<"b",".","t","s">>
gCts    == <<"c",".","t","s">>
gZts    == <<"z",".","t","s">>
gStarTs == <<"*",".","t","s">>
gBtsx   == <<"b",".","t","s","x">>
gBxts   == <<"b","x","t","s">>
gStarTestTs == <<"*",".","t","e","s","t",".","t","s">>

PathSegments == { gA, gX, gBts }
PatternSegments == { gA, StarStar, gStarTs }

SlashJoin(segs) == Join(segs, <<"/">>)

GlobPaths ==
    { SlashJoin(q) : q \in SeqsUpTo(PathSegments, MaxPathSegs) \ {<<>>} }
    \cup { SlashJoin(<<gA, gB, gCts>>), SlashJoin(<<gA, gBts>>),
           SlashJoin(<<gX, gY, gZts>>), SlashJoin(<<gA, gB>>),
           SlashJoin(<<gA, gX, gB>>), SlashJoin(<<gA, gX, gY, gB>>), <<>>,
           gBtsx, gBxts, SlashJoin(<<gA, gBtsx>>), SlashJoin(<<gA, gBxts>>) }

GlobPatterns ==
    { SlashJoin(q) : q \in SeqsUpTo(PatternSegments, MaxPatternSegs) \ {<<>>} }
    \cup { SlashJoin(<<gA, StarStar, gStarTs>>), SlashJoin(<<StarStar, gStarTestTs>>),
           StarStar, SlashJoin(<<gA, StarStar, gB>>),
           Join(<<gA, StarStar, gB>>, <<"\\">>) }

InitG ==
    /\ gPath \in GlobPaths
    /\ gPattern \in GlobPatterns
    /\ gResult = FALSE
    /\ gCalled = FALSE
    /\ IdleV /\ IdleD /\ IdleS1 /\ IdleS2 /\ IdleP /\ IdleX

\* one call matchesPattern(filePath, pattern) on the drawn inputs
MatchesPattern ==
    /\ ~ gCalled
    /\ gResult' = matchesPattern(gPath, gPattern)
    /\ gCalled' = TRUE
    /\ UNCHANGED <<gPath, gPattern>>
    /\ UNCHANGED <<vvars, dvars, s1vars, s2vars, pvars, xvars>>

NextG == MatchesPattern

----------------------------------------------------------------------------
\* The file system seen by the scanner

\* disk changes interleaved with the calls on one scanner instance
MaxFsChanges == 2

nP   == <<"p">>
nW   == <<"w">>
nA   == <<"a">>
nB   == <<"b">>
nQ   == <<"q">>
nDot == <<".", "g">>
nNodeModules == <<"n","o","d","e","_","m","o","d","u","l","e","s">>

DirRoot == <<>>
DirP == <<nP>>
DirW == <<nP, nW>>
DirA == <<nP, nW, nA>>
DirB == <<nP, nW, nB>>
DirDot == <<nP, nW, nDot>>
DirNM == <<nP, nW, nNodeModules>>
DirQ == <<nQ>>

Dirs == { DirRoot, DirP, DirW, DirA, DirB, DirDot, DirNM, DirQ }

\* the path handed to the FileScanner constructor
ConfiguredWorkspace == DirW

\* directories that may be missing or unreadable
FragileDirs == { DirW, DirA, DirB }

fIts     == <<"i",".","t","s">>
fHts     == <<"h",".","t","s">>
fHtestTs == <<"h",".","t","e","s","t",".","t","s">>
fTdts    == <<"t",".","d",".","t","s">>
fKts     == <<"k",".","t","s">>
fZts     == <<"z",".","t","s">>
fMts     == <<"m",".","t","s">>
fRjs     == <<"r",".","j","s">>
fCts     == <<"c",".","t","s">>

\* the files that may exist, in the order readdir lists them
FileTable ==
    << [dir |-> DirW, name |-> fIts],
       [dir |-> DirA, name |-> fHts],
       [dir |-> DirA, name |-> fHtestTs],
       [dir |-> DirA, name |-> fTdts],
       [dir |-> DirA, name |-> fRjs],
       [dir |-> DirB, name |-> fKts],
       [dir |-> DirDot, name |-> fZts],
       [dir |-> DirNM, name |-> fMts],
       [dir |-> DirQ, name |-> fCts] >>

FileIds == 1..Len(FileTable)

\* a source file: the names its export statements push (parseExportedFunctions)
\* and the handler paths of its call sites (analyzeHandlerContexts)
Source(exports, paths) == [present |-> TRUE, exports |-> exports, paths |-> paths]
Absent == [present |-> FALSE, exports |-> <<>>, paths |-> <<>>]

\* paths are strings: absolute (segs below "/"), relative to cwd, "" or null
AbsPath(segs) == [abs |-> TRUE, segs |-> segs, kind |-> "path"]
RelPath(segs) == [abs |-> FALSE, segs |-> segs, kind |-> "path"]
EmptyPath == [abs |-> FALSE, segs |-> <<>>, kind |-> "empty"]     \* ""
DotPath == RelPath(<<>>)                                          \* "."
NoPath == [abs |-> FALSE, segs |-> <<>>, kind |-> "null"]         \* null

\* JavaScript truthiness of a string | null path
TruthyPath(p) == p # NoPath /\ p # EmptyPath

\* path.join(dir, name): "" and "." both disappear in front of a name
PathJoin(dir, name) ==
    IF dir.abs THEN AbsPath(Append(dir.segs, name)) ELSE RelPath(Append(dir.segs, name))

\* path.dirname
PathDirname(p) ==
    IF p.abs THEN AbsPath(SubSeq(p.segs, 1, Len(p.segs) - 1))
    ELSE IF Len(p.segs) <= 1 THEN DotPath
    ELSE RelPath(SubSeq(p.segs, 1, Len(p.segs) - 1))

\* the directory a path names for the operating system; "" names nothing
Resolve(p) == IF p.abs THEN p.segs ELSE cwd \o p.segs

IsPrefix(a, b) == Len(a) <= Len(b) /\ SubSeq(b, 1, Len(a)) = a

\* path.relative(from, to) for a `to` below `from`
PathRelative(from, to) ==
    SubSeq(Resolve(to), Len(Resolve(from)) + 1, Len(Resolve(to)))

DirState(d) == IF d \in FragileDirs THEN disk.state[d] ELSE "ok"

DirExists(d) ==
    /\ d \in Dirs
    /\ \A k \in 0..Len(d) : DirState(SubSeq(d, 1, k)) # "missing"

\* fs.promises.readdir(p) rejects: ENOENT for "" and missing directories,
\* EACCES for unreadable ones
ReaddirThrows(p) ==
    p.kind = "empty" \/ ~ DirExists(Resolve(p)) \/ DirState(Resolve(p)) = "noread"

\* fs.existsSync(path.join(p, "sst.config.ts"))
MarkerExists(p) == DirExists(Resolve(p)) /\ Resolve(p) \in disk.marker

\* fs.existsSync(path.join(p, "tsconfig.json"))
TsConfigExists(p) ==
    /\ DirExists(Resolve(p))
    /\ Resolve(p) \in DOMAIN disk.tsconfig
    /\ disk.tsconfig[Resolve(p)].kind # "none"

\* readdir lists the entries of a directory in name order
EntryOrder ==
    << nDot, nA, nB, fCts, fHtestTs, fHts, fIts, fKts, fMts, nNodeModules,
       nP, nQ, fRjs, fTdts, nW, fZts >>

\* the file of FileTable that is called name in directory d, or 0
FileIndex(d, name) ==
    IF [dir |-> d, name |-> name] \in Range(FileTable)
    THEN CHOOSE i \in DOMAIN FileTable : FileTable[i] = [dir |-> d, name |-> name]
    ELSE 0

\* the Dirent of name in d: a directory, a file that is present, or nothing
Dirent(d, name, f) ==
    IF DirExists(Append(d, name))
    THEN << [name |-> name, isDir |-> TRUE, file |-> 0] >>
    ELSE IF f # 0 /\ disk.files[f].present
    THEN << [name |-> name, isDir |-> FALSE, file |-> f] >>
    ELSE << >>

\* fs.promises.readdir(d, { withFileTypes: true })
Entries(d) ==
    LET F[i \in 0..Len(EntryOrder)] ==
            IF i = 0 THEN <<>>
            ELSE F[i-1] \o Dirent(d, EntryOrder[i], FileIndex(d, EntryOrder[i]))
    IN F[Len(EntryOrder)]

\* entry.name.startsWith(".") || entry.name === "node_modules"
SkippedDir(name) == name[1] = "." \/ name = nNodeModules

----------------------------------------------------------------------------
\* FileScanner (fileScanner.ts:12-423): workspaceRoot is overwritten by
\* every root discovery

TsNull == [parsed |-> FALSE, hasInclude |-> FALSE, include |-> <<>>,
           hasExclude |-> FALSE, exclude |-> <<>>]

\* JSON.parse of a tsconfig.json with optional include / exclude arrays
TsConfig(hasInclude, include, hasExclude, exclude) ==
    [parsed |-> TRUE, hasInclude |-> hasInclude, include |-> include,
     hasExclude |-> hasExclude, exclude |-> exclude]

DefaultInclude == << SlashJoin(<<StarStar, gStarTs>>) >>
DefaultExclude == << SlashJoin(<<nNodeModules, StarStar>>),
                     SlashJoin(<<<<"d","i","s","t">>, StarStar>>),
                     SlashJoin(<<StarStar, gStarTestTs>>) >>

Ok(value) == [status |-> "ok", value |-> value]
Rejected == [status |-> "throw", value |-> <<>>]

RECURSIVE findSstConfig(_, _)
RECURSIVE findSstConfigEntries(_, _, _, _)

\* `if (result) return result;` (fileScanner.ts:51), or on to the next entry;
\* a rejection of the recursive call ends the loop as well
findSstConfigResult(result, dir, entries, k, catches) ==
    IF result.status = "throw" \/ TruthyPath(result.value) THEN result
    ELSE findSstConfigEntries(dir, entries, k + 1, catches)

\* the loop over the entries of dir, from entry k on (fileScanner.ts:47-53)
findSstConfigEntries(dir, entries, k, catches) ==
    IF k > Len(entries) THEN Ok(NoPath)
    ELSE IF entries[k].isDir /\ ~ SkippedDir(entries[k].name)
         THEN findSstConfigResult(findSstConfig(PathJoin(dir, entries[k].name), catches),
                                  dir, entries, k, catches)
    ELSE findSstConfigEntries(dir, entries, k + 1, catches)

\* findSstConfig(dir); catches says whether the body is wrapped in try/catch
\* (it is not in findworkspaceRoot, it is in findSstRoot)
findSstConfig(dir, catches) ==
    IF MarkerExists(dir) THEN Ok(dir)
    ELSE IF ReaddirThrows(dir) THEN (IF catches THEN Ok(NoPath) ELSE Rejected)
    ELSE findSstConfigEntries(dir, Entries(Resolve(dir)), 1, catches)

RECURSIVE UpwardWalk(_)
\* while (currentDir !== path.dirname(currentDir)) { ... }; NoPath: no break
UpwardWalk(currentDir) ==
    IF currentDir = PathDirname(currentDir) THEN NoPath
    ELSE IF MarkerExists(PathDirname(currentDir)) THEN PathDirname(currentDir)
    ELSE UpwardWalk(PathDirname(currentDir))

RECURSIVE findTsConfig(_)
RECURSIVE findTsConfigEntries(_, _, _)

\* `if (result) return result;` (fileScanner.ts:95), or on to the next entry
findTsConfigResult(result, dir, entries, k) ==
    IF TruthyPath(result) THEN result
    ELSE findTsConfigEntries(dir, entries, k + 1)

findTsConfigEntries(dir, entries, k) ==
    IF k > Len(entries) THEN NoPath
    ELSE IF entries[k].isDir /\ ~ SkippedDir(entries[k].name)
         THEN findTsConfigResult(findTsConfig(PathJoin(dir, entries[k].name)),
                                 dir, entries, k)
    ELSE findTsConfigEntries(dir, entries, k + 1)

\* findTsConfig(dir): the directory whose tsconfig.json is found, or null
findTsConfig(dir) ==
    IF TsConfigExists(dir) THEN dir
    ELSE IF ReaddirThrows(dir) THEN NoPath
    ELSE findTsConfigEntries(dir, Entries(Resolve(dir)), 1)

\* readFile + JSON.parse of a tsconfig.json; a parse error leaves null
ParseTsConfigFile(file) ==
    IF file.kind = "bad" THEN TsNull
    ELSE TsConfig(file.hasInclude, file.include, file.hasExclude, file.exclude)

ParseTsConfig(dir) == ParseTsConfigFile(disk.tsconfig[Resolve(dir)])

\* fileScanner.ts:104-113: this.tsConfig is assigned only when a
\* tsconfig.json was found
loadTSConfigFrom(s, tsConfigDir) ==
    IF TruthyPath(tsConfigDir)
    THEN [s EXCEPT !.tsConfig = ParseTsConfig(tsConfigDir)]
    ELSE s

\* loadTSConfig() of fileScanner.ts:80-118
loadTSConfig(s) ==
    IF ~ TruthyPath(s.workspaceRoot) THEN s
    ELSE loadTSConfigFrom(s, findTsConfig(s.workspaceRoot))

\* fileScanner.ts:74-77: loadTSConfig if a root is stored, and the return
findworkspaceRootReturn(s, root) ==
    [s |-> IF TruthyPath(root)
           THEN loadTSConfig([s EXCEPT !.workspaceRoot = root])
           ELSE [s EXCEPT !.workspaceRoot = root],
     status |-> "ok", value |-> root]

\* this.workspaceRoot after the parent-directory loop (fileScanner.ts:66-71)
ParentOr(up, root) == IF TruthyPath(up) THEN up ELSE root

\* fileScanner.ts:61-72 with this.workspaceRoot = root
findworkspaceRootParents(s, root) ==
    findworkspaceRootReturn(s,
        IF TruthyPath(root) THEN root ELSE ParentOr(UpwardWalk(root), root))

\* fileScanner.ts:58: this.workspaceRoot = (await findSstConfig(...)) || ""
findworkspaceRootFound(s, found) ==
    IF found.status = "throw" THEN [s |-> s, status |-> "throw", value |-> NoPath]
    ELSE findworkspaceRootParents(s,
             IF TruthyPath(found.value) THEN found.value ELSE EmptyPath)

\* findworkspaceRoot(): the new instance state and the value returned
findworkspaceRoot(s) ==
    findworkspaceRootFound(s, findSstConfig(s.workspaceRoot, FALSE))

\* filePath.replace(/\.ts$/, "")
StripTs(name) ==
    IF EndsWith(name, <<".", "t", "s">>) THEN SubSeq(name, 1, Len(name) - 3) ELSE name

MatchesAnyPattern(relativePath, patterns) ==
    \E i \in 1..Len(patterns) : matchesPattern(relativePath, patterns[i])

\* the include loop placed in front of the exclude loop
IncludedByTsConfig_IncludeFirst(relativePath, tsConfig) ==
    IF tsConfig.hasInclude /\ MatchesAnyPattern(relativePath, tsConfig.include)
    THEN TRUE
    ELSE IF tsConfig.hasExclude /\ MatchesAnyPattern(relativePath, tsConfig.exclude)
    THEN FALSE
    ELSE ~ tsConfig.hasInclude

\* fileScanner.ts:183-202: exclude patterns first, then include patterns
IncludedByTsConfig(relativePath, tsConfig) ==
    IF tsConfig.hasExclude /\ MatchesAnyPattern(relativePath, tsConfig.exclude)
    THEN FALSE
    ELSE IF tsConfig.hasInclude
    THEN MatchesAnyPattern(relativePath, tsConfig.include)
    ELSE TRUE

\* fileScanner.ts:173-181 on the root-relative path
IsSourcePath(relativePath) ==
    /\ ~ EndsWith(relativePath, <<".", "d", ".", "t", "s">>)
    /\ EndsWith(relativePath, <<".", "t", "s">>)

shouldIncludeRelative(relativePath, tsConfig) ==
    IF ~ IsSourcePath(relativePath) THEN FALSE
    ELSE IncludedByTsConfig(relativePath, tsConfig)

shouldIncludeFile(filePath, s) ==
    IF ~ TruthyPath(s.workspaceRoot) THEN FALSE
    ELSE shouldIncludeRelative(SlashJoin(PathRelative(s.workspaceRoot, filePath)),
                               s.tsConfig)

getRelativePath(filePath, s) ==
    IF ~ TruthyPath(s.workspaceRoot) THEN SlashJoin(filePath.segs)
    ELSE StripTs(SlashJoin(PathRelative(s.workspaceRoot, filePath)))

\* parseExportedFunctions: [...new Set(exports)] of the names pushed
parseExportedFunctionsOfFile(file) == Dedup(disk.files[file].exports)

\* fileScanner.ts:150-158: a handler is pushed when the file exports something
HandlerOf(fullPath, relativePath, exportedFunctions) ==
    IF Len(exportedFunctions) > 0
    THEN << [filePath |-> fullPath, relativePath |-> relativePath,
             exportedFunctions |-> exportedFunctions] >>
    ELSE << >>

RECURSIVE scanDirectory(_, _)

\* what one entry of the loop of scanDirectory pushes (fileScanner.ts:136-160)
scanEntry(fullPath, entry, s) ==
    IF entry.isDir
    THEN IF ~ SkippedDir(entry.name) THEN scanDirectory(fullPath, s) ELSE << >>
    ELSE IF /\ EndsWith(entry.name, <<".", "t", "s">>)
            /\ ~ EndsWith(entry.name, <<".", "d", ".", "t", "s">>)
            /\ shouldIncludeFile(fullPath, s)
    THEN HandlerOf(fullPath, getRelativePath(fullPath, s),
                   parseExportedFunctionsOfFile(entry.file))
    ELSE << >>

scanEntries(dir, entries, s) ==
    LET H[i \in 0..Len(entries)] ==
            IF i = 0 THEN <<>>
            ELSE H[i-1] \o scanEntry(PathJoin(dir, entries[i].name), entries[i], s)
    IN H[Len(entries)]

\* the handlers scanDirectory(dir, handlers) pushes, in walk order
scanDirectory(dir, s) ==
    IF ReaddirThrows(dir) THEN <<>>
    ELSE scanEntries(dir, Entries(Resolve(dir)), s)

\* fileScanner.ts:122-128 once findworkspaceRoot has settled
scanHandlersFrom(root) ==
    IF root.status = "throw" THEN [s |-> root.s, res |-> Rejected]
    ELSE IF ~ TruthyPath(root.value) THEN [s |-> root.s, res |-> Ok(<<>>)]
    ELSE [s |-> root.s, res |-> Ok(scanDirectory(root.value, root.s))]

\* scanHandlers(): the new instance state and the promise's outcome
scanHandlers(s) == scanHandlersFrom(findworkspaceRoot(s))

NoConfig == [isNull |-> TRUE, rootPath |-> NoPath, hasSstConfigPath |-> FALSE,
             hasTsConfigPath |-> FALSE, includePatterns |-> <<>>,
             excludePatterns |-> <<>>]

\* the SSTProjectConfig literal of fileScanner.ts:29-35
ProjectConfig(rootPath, tsConfig) ==
    [isNull |-> FALSE,
     rootPath |-> rootPath,
     hasSstConfigPath |-> MarkerExists(rootPath),
     hasTsConfigPath |-> TsConfigExists(rootPath),
     includePatterns |-> IF tsConfig.hasInclude THEN tsConfig.include
                         ELSE DefaultInclude,
     excludePatterns |-> IF tsConfig.hasExclude THEN tsConfig.exclude
                         ELSE DefaultExclude]

\* fileScanner.ts:24-35: loadTSConfig once more, then the config
findProjectConfigLoaded(rootPath, s) ==
    [s |-> s, res |-> Ok(ProjectConfig(rootPath, s.tsConfig))]

\* fileScanner.ts:21-22 once findworkspaceRoot has settled
findProjectConfigFrom(root) ==
    IF root.status = "throw" THEN [s |-> root.s, res |-> Rejected]
    ELSE IF ~ TruthyPath(root.value) THEN [s |-> root.s, res |-> Ok(NoConfig)]
    ELSE findProjectConfigLoaded(root.value, loadTSConfig(root.s))

\* findProjectConfig(): the new instance state and the promise's outcome
findProjectConfig(s) == findProjectConfigFrom(findworkspaceRoot(s))

\* new FileScanner(workspaceRoot, ts)
NewScanner == [workspaceRoot |-> AbsPath(ConfiguredWorkspace), tsConfig |-> TsNull]

----------------------------------------------------------------------------
\* Disk contents and disk changes

\* a tsconfig.json: absent, not valid JSON, or a JSON object
TsFile(kind, hasInclude, include, hasExclude, exclude) ==
    [kind |-> kind, hasInclude |-> hasInclude, include |-> include,
     hasExclude |-> hasExclude, exclude |-> exclude]

TsNone   == TsFile("none", FALSE, <<>>, FALSE, <<>>)
TsBad    == TsFile("bad", FALSE, <<>>, FALSE, <<>>)
TsPlain  == TsFile("json", FALSE, <<>>, FALSE, <<>>)
TsOnlyA  == TsFile("json", TRUE, << SlashJoin(<<nA, StarStar, gStarTs>>) >>, FALSE, <<>>)
TsNoB    == TsFile("json", FALSE, <<>>, TRUE, << SlashJoin(<<nB, StarStar>>) >>)

TsFiles == { TsNone, TsBad, TsPlain, TsOnlyA, TsNoB }
TsDirs == { DirW, DirA }

fnH == <<"h">>
fnG == <<"g">>
fnK == <<"k">>

pAhH == <<"a","/","h",".","h">>
pAhX == <<"a","/","h",".","x">>
pBkK == <<"b","/","k",".","k">>

SourceH == Source(<<fnH>>, <<>>)
SourceG == Source(<<fnG, fnH, fnG>>, <<>>)
SourceInfra == Source(<<>>, <<pAhH, pAhX, pBkK>>)

InitFiles ==
    << SourceInfra,                    \* w/i.ts
       SourceH,                        \* w/a/h.ts
       Source(<<fnH>>, <<>>),          \* w/a/h.test.ts
       Source(<<fnH>>, <<>>),          \* w/a/t.d.ts
       Source(<<fnH>>, <<>>),          \* w/a/r.js
       Source(<<fnK, fnK>>, <<>>),     \* w/b/k.ts
       Source(<<fnH>>, <<>>),          \* w/.g/z.ts
       Source(<<fnH>>, <<>>),          \* w/node_modules/m.ts
       Source(<<fnH>>, <<pAhH>>) >>    \* /q/c.ts

\* handler files that are created, edited and removed
ChangingFiles == { 2, 6 }
FileContents == { Absent, SourceH, SourceG }

MarkerDirs == { DirP, DirW, DirA, DirB, DirQ }

InitMarkers == { {}, {DirW}, {DirA, DirB}, {DirB}, {DirP}, {DirQ}, {DirDot, DirNM} }

InitDisk ==
    /\ disk \in { [marker |-> m,
                   state |-> [d \in FragileDirs |-> "ok"],
                   tsconfig |-> [d \in TsDirs |-> IF d = DirW THEN t ELSE TsNone],
                   files |-> InitFiles]
                  : m \in InitMarkers, t \in { TsNone, TsOnlyA } }
    /\ cwd \in { DirP, DirQ }
    /\ fsChanges = 0

DiskChange(newDisk) ==
    /\ newDisk # disk
    /\ disk' = newDisk
    /\ fsChanges' = fsChanges + 1
    /\ UNCHANGED cwd

\* sst.config.ts is created in d
CreateMarker ==
    \E d \in MarkerDirs \ disk.marker :
        DiskChange([disk EXCEPT !.marker = @ \cup {d}])

\* sst.config.ts is removed from d
RemoveMarker ==
    \E d \in disk.marker :
        DiskChange([disk EXCEPT !.marker = @ \ {d}])

\* tsconfig.json is created, edited or removed in d
WriteTsConfig ==
    \E d \in TsDirs, t \in TsFiles :
        DiskChange([disk EXCEPT !.tsconfig[d] = t])

\* a handler file is created, edited or removed
WriteFile ==
    \E f \in ChangingFiles, c \in FileContents :
        DiskChange([disk EXCEPT !.files[f] = c])

\* a directory is removed, made unreadable, or restored
ChangeDir ==
    \E d \in FragileDirs, st \in { "ok", "noread", "missing" } :
        DiskChange([disk EXCEPT !.state[d] = st])

FsChange == CreateMarker \/ RemoveMarker \/ WriteTsConfig \/ WriteFile \/ ChangeDir

----------------------------------------------------------------------------
\* Calls on one long-lived FileScanner instance

InitS1 ==
    /\ InitDisk
    /\ s1 = NewScanner
    /\ op = "new"
    /\ res = NoResult
    /\ IdleV /\ IdleG /\ IdleS2 /\ IdleP /\ IdleX

\* a call has settled: the instance state and the outcome are recorded
Settle1(call, name) ==
    /\ s1' = call.s
    /\ res' = call.res
    /\ op' = name
    /\ UNCHANGED <<dvars, vvars, gvars, s2vars, pvars, xvars>>

ScanHandlers1 == Settle1(scanHandlers(s1), "scanHandlers")

FindProjectConfig1 == Settle1(findProjectConfig(s1), "findProjectConfig")

DiskStep1 ==
    /\ fsChanges < MaxFsChanges
    /\ FsChange
    /\ op' = "fs"
    /\ res' = NoResult
    /\ UNCHANGED <<s1, vvars, gvars, s2vars, pvars, xvars>>

NextS1 == ScanHandlers1 \/ FindProjectConfig1 \/ DiskStep1

----------------------------------------------------------------------------
\* SSTValidator.validateProject (validator.ts:26-81) on the disk

\* disk changes while validateProject runs and between its calls
MaxFsChangesP == 1

\* pattern.replace(/\./g, "\\.").replace(/\*\*/g, ".*").replace(/\*/g, "[^/]*"):
\* "**" becomes ".*" whose "*" the last replace turns into "[^/]*"
RECURSIVE GlobRegex(_)
GlobRegex(pattern) ==
    IF pattern = <<>> THEN <<>>
    ELSE IF Len(pattern) >= 2 /\ pattern[1] = "*" /\ pattern[2] = "*"
         THEN <<[kind |-> "any", ch |-> ""], [kind |-> "notSlashStar", ch |-> ""]>>
              \o GlobRegex(SubSeq(pattern, 3, Len(pattern)))
    ELSE IF pattern[1] = "*"
         THEN <<[kind |-> "notSlashStar", ch |-> ""]>> \o GlobRegex(Tail(pattern))
    ELSE <<[kind |-> "char", ch |-> pattern[1]]>> \o GlobRegex(Tail(pattern))

RECURSIVE RegexMatchToEnd(_, _, _, _)
\* the regex from token i on matches s from position j up to its end
RegexMatchToEnd(regex, i, s, j) ==
    IF i > Len(regex) THEN j > Len(s)
    ELSE IF regex[i].kind = "notSlashStar"
         THEN \E k \in j..(Len(s) + 1) :
                  /\ \A m \in j..(k - 1) : s[m] # "/"
                  /\ RegexMatchToEnd(regex, i + 1, s, k)
    ELSE IF j > Len(s) THEN FALSE
    ELSE IF regex[i].kind = "any" THEN RegexMatchToEnd(regex, i + 1, s, j + 1)
    ELSE s[j] = regex[i].ch /\ RegexMatchToEnd(regex, i + 1, s, j + 1)

\* new RegExp(`^${regex}$`).test(filePath)
matchesGlob(filePath, pattern) == RegexMatchToEnd(GlobRegex(pattern), 1, filePath, 1)

\* validator.ts:218-236: no exclude pattern matches and, if there are include
\* patterns, one of them matches
MatchesAnyGlob(relativePath, patterns) ==
    \E k \in 1..Len(patterns) : matchesGlob(relativePath, patterns[k])

SelectedByConfig(relativePath, config) ==
    /\ ~ MatchesAnyGlob(relativePath, config.excludePatterns)
    /\ (Len(config.includePatterns) > 0
          => MatchesAnyGlob(relativePath, config.includePatterns))

RECURSIVE findAllTypeScriptFiles_scanDir(_, _)

\* what one entry of the loop of scanDir pushes (validator.ts:210-241)
findAllTypeScriptFiles_entry(fullPath, entry, config) ==
    IF entry.isDir
    THEN IF ~ SkippedDir(entry.name)
         THEN findAllTypeScriptFiles_scanDir(fullPath, config)
         ELSE << >>
    ELSE IF /\ EndsWith(entry.name, <<".", "t", "s">>)
            /\ SelectedByConfig(SlashJoin(PathRelative(config.rootPath, fullPath)),
                                config)
    THEN << [path |-> fullPath, file |-> entry.file] >>
    ELSE << >>

findAllTypeScriptFiles_entries(dir, entries, config) ==
    LET F[i \in 0..Len(entries)] ==
            IF i = 0 THEN <<>>
            ELSE F[i-1] \o findAllTypeScriptFiles_entry(
                               PathJoin(dir, entries[i].name), entries[i], config)
    IN F[Len(entries)]

\* the files scanDir(dir) pushes, in walk order; a readdir error is caught
findAllTypeScriptFiles_scanDir(dir, config) ==
    IF ReaddirThrows(dir) THEN <<>>
    ELSE findAllTypeScriptFiles_entries(dir, Entries(Resolve(dir)), config)

findAllTypeScriptFiles(config) == findAllTypeScriptFiles_scanDir(config.rootPath, config)

\* analyzeHandlerContexts of a source file: one context per handler call site
analyzeHandlerContextsOfFile(file) ==
    [i \in 1..Len(disk.files[file].paths) |->
        [type |-> "function", position |-> 10 * i,
         expectedPath |-> disk.files[file].paths[i]]]

ValidationResult(isValid, errors, handlers) ==
    [isValid |-> isValid, errors |-> errors, handlers |-> handlers]

ProjectError(message) ==
    [type |-> "file-not-found", message |-> message,
     filePath |-> <<>>, handlerPath |-> <<>>,
     hasSuggestions |-> FALSE, suggestions |-> <<>>]

\* validator.ts:32-47: findProjectConfig resolved to null
NoProjectResult ==
    Ok(ValidationResult(FALSE,
        << ProjectError(<<"No SST project found. Make sure sst.config.ts exists in your project.">>) >>,
        <<>>))

\* the rejection propagates to the caller
FailedResult_Rethrown == Rejected

\* validator.ts:65-80: the catch block; nothing has been pushed to errors
\* when findProjectConfig or scanHandlers rejects
FailedResult ==
    Ok(ValidationResult(FALSE, << ProjectError(<<"Validation failed: ">>) >>, <<>>))

\* validator.ts:52-55: validateFile for each file, errors concatenated
ValidateFiles(tsFiles, handlers) ==
    LET E[i \in 0..Len(tsFiles)] ==
            IF i = 0 THEN <<>>
            ELSE E[i-1] \o validateFile(tsFiles[i].path,
                                        disk.files[tsFiles[i].file].present,
                                        analyzeHandlerContextsOfFile(tsFiles[i].file),
                                        handlers)
    IN E[Len(tsFiles)]

\* validator.ts:57-64
ResultOf(errors, handlers) == Ok(ValidationResult(errors = <<>>, errors, handlers))

\* validator.ts:50-64
ValidatedResult(config, handlers) ==
    ResultOf(ValidateFiles(findAllTypeScriptFiles(config), handlers), handlers)

\* new SSTValidator(workspaceRoot, ts)
InitP ==
    /\ InitDisk
    /\ pScanner = NewScanner
    /\ pPc = "idle"
    /\ pConfig = NoConfig
    /\ pResult = NoResult
    /\ IdleV /\ IdleG /\ IdleS1 /\ IdleS2 /\ IdleX /\ IdleM /\ IdleL /\ IdleK /\ IdleN /\ IdleW

\* validator.ts:31-47: what validateProject does with the outcome of
\* findProjectConfig
ConfigSettled(c) ==
    /\ pScanner' = c.s
    /\ IF c.res.status = "throw"
       THEN pResult' = FailedResult /\ pPc' = "done" /\ pConfig' = NoConfig
       ELSE IF c.res.value.isNull
       THEN pResult' = NoProjectResult /\ pPc' = "done" /\ pConfig' = NoConfig
       ELSE pResult' = pResult /\ pPc' = "scanning" /\ pConfig' = c.res.value

\* validateProject up to the end of `await this.fileScanner.findProjectConfig()`
ValidateProjectBegin ==
    /\ pPc \in { "idle", "done" }
    /\ ConfigSettled(findProjectConfig(pScanner))
    /\ UNCHANGED <<dvars, vvars, gvars, s1vars, s2vars, xvars>>

\* validator.ts:49-80: what validateProject does with the outcome of scanHandlers
HandlersSettled(h) ==
    /\ pScanner' = h.s
    /\ pResult' = IF h.res.status = "throw" THEN FailedResult
                  ELSE ValidatedResult(pConfig, h.res.value)

\* the rest of validateProject: scanHandlers, findAllTypeScriptFiles and
\* validateFile for each file
ValidateProjectFinish ==
    /\ pPc = "scanning"
    /\ HandlersSettled(scanHandlers(pScanner))
    /\ pPc' = "done"
    /\ UNCHANGED <<pConfig, dvars, vvars, gvars, s1vars, s2vars, xvars>>

\* the disk changes while validateProject awaits or between calls
DiskStepP ==
    /\ fsChanges < MaxFsChangesP
    /\ FsChange
    /\ UNCHANGED <<pvars, vvars, gvars, s1vars, s2vars, xvars>>

NextP == ValidateProjectBegin \/ ValidateProjectFinish \/ DiskStepP

----------------------------------------------------------------------------
\* FileScanner (fileScanner.ts:436-825): workspaceRoot is readonly and the
\* root found is cached in sstRoot

\* new FileScanner(workspaceRoot, ts)
NewScanner2 == [sstRoot |-> NoPath, tsConfig |-> TsNull]

\* loadTSConfig() of fileScanner.ts:512-529: only sstRoot/tsconfig.json
loadTSConfig2(s) ==
    IF ~ TruthyPath(s.sstRoot) THEN s
    ELSE IF TsConfigExists(s.sstRoot)
         THEN [s EXCEPT !.tsConfig = ParseTsConfig(s.sstRoot)]
    ELSE s

\* fileScanner.ts:503-509: loadTSConfig if a root is stored, and the return
findSstRootReturn(s, root) ==
    [s |-> IF TruthyPath(root)
           THEN loadTSConfig2([s EXCEPT !.sstRoot = root])
           ELSE [s EXCEPT !.sstRoot = root],
     value |-> root]

\* fileScanner.ts:487-501: the downward search, then the parent directories
\* of the workspace path
findSstRootFound(s, down) ==
    findSstRootReturn(s, IF TruthyPath(down) THEN down
                         ELSE UpwardWalk(AbsPath(ConfiguredWorkspace)))

\* findSstRoot(): the new instance state and the value returned
findSstRoot(s) ==
    IF TruthyPath(s.sstRoot) THEN [s |-> s, value |-> s.sstRoot]
    ELSE findSstRootFound(s, findSstConfig(AbsPath(ConfiguredWorkspace), TRUE).value)

\* shouldIncludeFile of fileScanner.ts:579-604
shouldIncludeFile2(filePath, s) ==
    IF ~ TruthyPath(s.sstRoot) THEN FALSE
    ELSE IncludedByTsConfig(SlashJoin(PathRelative(s.sstRoot, filePath)), s.tsConfig)

getRelativePath2(filePath, s) ==
    IF ~ TruthyPath(s.sstRoot) THEN SlashJoin(filePath.segs)
    ELSE StripTs(SlashJoin(PathRelative(s.sstRoot, filePath)))

RECURSIVE scanDirectory2(_, _)

\* what one entry of the loop of scanDirectory pushes (fileScanner.ts:547-571)
scanEntry2(fullPath, entry, s) ==
    IF entry.isDir
    THEN IF ~ SkippedDir(entry.name) THEN scanDirectory2(fullPath, s) ELSE << >>
    ELSE IF /\ EndsWith(entry.name, <<".", "t", "s">>)
            /\ ~ EndsWith(entry.name, <<".", "d", ".", "t", "s">>)
            /\ shouldIncludeFile2(fullPath, s)
    THEN HandlerOf(fullPath, getRelativePath2(fullPath, s),
                   parseExportedFunctionsOfFile(entry.file))
    ELSE << >>

scanEntries2(dir, entries, s) ==
    LET H[i \in 0..Len(entries)] ==
            IF i = 0 THEN <<>>
            ELSE H[i-1] \o scanEntry2(PathJoin(dir, entries[i].name), entries[i], s)
    IN H[Len(entries)]

\* scanDirectory of fileScanner.ts:542-577
scanDirectory2(dir, s) ==
    IF ReaddirThrows(dir) THEN <<>>
    ELSE scanEntries2(dir, Entries(Resolve(dir)), s)

\* fileScanner.ts:533-539 once findSstRoot has settled
scanHandlersFrom2(root) ==
    IF ~ TruthyPath(root.value) THEN [s |-> root.s, res |-> Ok(<<>>)]
    ELSE [s |-> root.s, res |-> Ok(scanDirectory2(root.value, root.s))]

\* scanHandlers() of fileScanner.ts:531-540
scanHandlers2(s) == scanHandlersFrom2(findSstRoot(s))

\* fileScanner.ts:449-462 once findSstRoot has settled
findProjectConfigFrom2(root) ==
    IF ~ TruthyPath(root.value) THEN [s |-> root.s, res |-> Ok(NoConfig)]
    ELSE findProjectConfigLoaded(root.value, loadTSConfig2(root.s))

\* findProjectConfig() of fileScanner.ts:447-463
findProjectConfig2(s) == findProjectConfigFrom2(findSstRoot(s))

InitS2 ==
    /\ InitDisk
    /\ s2 = NewScanner2
    /\ op2 = "new"
    /\ res2 = NoResult
    /\ IdleV /\ IdleG /\ IdleS1 /\ IdleP /\ IdleX /\ IdleM /\ IdleL /\ IdleK /\ IdleN /\ IdleW

\* a call has settled: the instance state and the outcome are recorded
Settle2(call, name) ==
    /\ s2' = call.s
    /\ res2' = call.res
    /\ op2' = name
    /\ UNCHANGED <<dvars, vvars, gvars, s1vars, pvars, xvars>>

ScanHandlers2 == Settle2(scanHandlers2(s2), "scanHandlers")

FindProjectConfig2 == Settle2(findProjectConfig2(s2), "findProjectConfig")

DiskStep2 ==
    /\ fsChanges < MaxFsChanges
    /\ FsChange
    /\ op2' = "fs"
    /\ res2' = NoResult
    /\ UNCHANGED <<s2, vvars, gvars, s1vars, pvars, xvars>>

NextS2 == ScanHandlers2 \/ FindProjectConfig2 \/ DiskStep2

----------------------------------------------------------------------------
\* shouldIncludeFile (fileScanner.ts:168-203) called on its own, as the
\* subclasses of FileScanner call it

gSrc    == <<"s","r","c">>
gDocs   == <<"d","o","c","s">>
gHts    == <<"h",".","t","s">>
gHtestTs == <<"h",".","t","e","s","t",".","t","s">>
gTdts   == <<"t",".","d",".","t","s">>
gReadme == <<"r","e","a","d","m","e",".","m","d">>

\* root-relative paths of files, as segment lists
RelativeFiles ==
    { <<gHts>>, <<gSrc, gHts>>, <<gSrc, gA, gHts>>, <<gSrc, gHtestTs>>,
      <<gSrc, gTdts>>, <<gDocs, gReadme>>, <<gDocs, gHts>>, <<gA, gBts>>,
      <<nNodeModules, gA, gHts>>, <<gSrc, gReadme>> }

patSrcTs    == SlashJoin(<<gSrc, StarStar, gStarTs>>)
patSrcAll   == SlashJoin(<<gSrc, StarStar>>)
patAnyTs    == SlashJoin(<<StarStar, gStarTs>>)
patAnyTest  == SlashJoin(<<StarStar, gStarTestTs>>)
patAll      == StarStar

IncludeLists == { <<>>, <<patSrcTs>>, <<patSrcAll>>, <<patSrcTs, SlashJoin(<<gA, StarStar>>)>>,
                  <<patAll>> }
ExcludeLists == { <<>>, <<patAnyTest>>, <<patSrcAll>>, <<patAnyTest, SlashJoin(<<nNodeModules, StarStar>>)>> }

\* this.tsConfig: null, or the parsed object with either field optional
ScannerTsConfigs ==
    { TsNull }
    \cup { TsConfig(TRUE, i, TRUE, e) : i \in IncludeLists, e \in ExcludeLists }
    \cup { TsConfig(TRUE, i, FALSE, <<>>) : i \in IncludeLists }
    \cup { TsConfig(FALSE, <<>>, TRUE, e) : e \in ExcludeLists }
    \cup { TsConfig(FALSE, <<>>, FALSE, <<>>) }

InitI ==
    /\ iScanner \in { [workspaceRoot |-> r, tsConfig |-> t] :
                          r \in { AbsPath(ConfiguredWorkspace), EmptyPath },
                          t \in ScannerTsConfigs }
    /\ iRel \in RelativeFiles
    /\ iResult = FALSE
    /\ iCalled = FALSE
    /\ IdleCore /\ IdleA /\ IdleE /\ IdleF /\ IdleU /\ IdleC /\ IdleR /\ IdleQ /\ IdleM /\ IdleL /\ IdleK /\ IdleN /\ IdleW

\* one call shouldIncludeFile(filePath) with filePath below the configured root
ShouldIncludeFile ==
    /\ ~ iCalled
    /\ iResult' = shouldIncludeFile(AbsPath(ConfiguredWorkspace \o iRel), iScanner)
    /\ iCalled' = TRUE
    /\ UNCHANGED <<iScanner, iRel>>
    /\ UNCHANGED exceptI

NextI == ShouldIncludeFile

----------------------------------------------------------------------------
\* ASTAnalyzer (astAnalyzer.ts): the syntax tree createSourceFile builds.
\* Every node carries its kind and pos, the offset node.getStart() gives
\* within the line of its top-level statement.

Identifier(text, pos) == [kind |-> "Identifier", pos |-> pos, text |-> text]
StringLiteral(text, pos) == [kind |-> "StringLiteral", pos |-> pos, text |-> text]
NumericLiteral(pos) == [kind |-> "NumericLiteral", pos |-> pos]
NoSubstitutionTemplateLiteral(text, pos) ==
    [kind |-> "NoSubstitutionTemplateLiteral", pos |-> pos, text |-> text]
TemplateSpan(expression, literal) == [expression |-> expression, literal |-> literal]
TemplateExpression(head, templateSpans, pos) ==
    [kind |-> "TemplateExpression", pos |-> pos, head |-> head,
     templateSpans |-> templateSpans]
PropertyAccessExpression(expression, name, pos) ==
    [kind |-> "PropertyAccessExpression", pos |-> pos,
     expression |-> expression, name |-> name]
CallExpression(expression, arguments, pos) ==
    [kind |-> "CallExpression", pos |-> pos,
     expression |-> expression, arguments |-> arguments]
NewExpression(expression, arguments, pos) ==
    [kind |-> "NewExpression", pos |-> pos,
     expression |-> expression, arguments |-> arguments]
ObjectLiteralExpression(properties, pos) ==
    [kind |-> "ObjectLiteralExpression", pos |-> pos, properties |-> properties]
\* nameKind: the property name is written as an Identifier or a StringLiteral
PropertyAssignment(nameKind, name, initializer, pos) ==
    [kind |-> "PropertyAssignment", pos |-> pos, nameKind |-> nameKind,
     name |-> name, initializer |-> initializer]
ArrayLiteralExpression(elements, pos) ==
    [kind |-> "ArrayLiteralExpression", pos |-> pos, elements |-> elements]
VariableDeclaration(name, initializer, pos) ==
    [kind |-> "VariableDeclaration", pos |-> pos, name |-> name,
     initializer |-> initializer]
VariableStatement(declarations, pos) ==
    [kind |-> "VariableStatement", pos |-> pos, declarations |-> declarations,
     modifiers |-> {}]
\* name is "" for `export default function () {}`
FunctionDeclaration(name, body, pos) ==
    [kind |-> "FunctionDeclaration", pos |-> pos, name |-> name, body |-> body,
     modifiers |-> {}]
FunctionExpression(body, pos) ==
    [kind |-> "FunctionExpression", pos |-> pos, body |-> body]
AwaitExpression(expression, pos) ==
    [kind |-> "AwaitExpression", pos |-> pos, expression |-> expression]
ConditionalExpression(condition, whenTrue, whenFalse, pos) ==
    [kind |-> "ConditionalExpression", pos |-> pos, condition |-> condition,
     whenTrue |-> whenTrue, whenFalse |-> whenFalse]
\* export default <expression>;
ExportAssignment(expression, pos) ==
    [kind |-> "ExportAssignment", pos |-> pos, expression |-> expression]
\* export { name, ... };
ExportDeclaration(names, pos) ==
    [kind |-> "ExportDeclaration", pos |-> pos, names |-> names]
\* node.modifiers: the keywords export, default in front of a statement
WithModifiers(node, modifiers) == [node EXCEPT !.modifiers = modifiers]
\* an initializer that is not there
NoNode == [kind |-> "None", pos |-> 0]
ExpressionStatement(expression, pos) ==
    [kind |-> "ExpressionStatement", pos |-> pos, expression |-> expression]
ArrowFunction(body, pos) == [kind |-> "ArrowFunction", pos |-> pos, body |-> body]

\* a top-level statement on its own line of the file
Line(statement, line) == [kind |-> "Line", pos |-> 0, statement |-> statement, line |-> line]
SourceFileOf(statements) ==
    [kind |-> "SourceFile", pos |-> 0,
     statements |-> [i \in 1..Len(statements) |-> Line(statements[i], i)]]

\* offset of the first character of line number `line`
LineStart(line) == 200 * (line - 1)

\* node.getStart() for a node of the statement that starts at base
getStart(node, base) == base + node.pos

SpanExpressions(spans) == [i \in 1..Len(spans) |-> spans[i].expression]

\* ts.forEachChild(node, cb): the child nodes in source order
Children(node) ==
    CASE node.kind = "SourceFile" -> node.statements
      [] node.kind = "Line" -> << node.statement >>
      [] node.kind = "VariableStatement" -> node.declarations
      [] node.kind = "VariableDeclaration" ->
             IF node.initializer = NoNode THEN << >> ELSE << node.initializer >>
      [] node.kind \in { "ExpressionStatement", "AwaitExpression",
                         "ExportAssignment" } -> << node.expression >>
      [] node.kind \in { "ArrowFunction", "FunctionExpression",
                         "FunctionDeclaration" } -> node.body
      [] node.kind = "ConditionalExpression" ->
             << node.condition, node.whenTrue, node.whenFalse >>
      [] node.kind \in { "CallExpression", "NewExpression" } ->
             << node.expression >> \o node.arguments
      [] node.kind = "PropertyAccessExpression" -> << node.expression >>
      [] node.kind = "ObjectLiteralExpression" -> node.properties
      [] node.kind = "PropertyAssignment" -> << node.initializer >>
      [] node.kind = "ArrayLiteralExpression" -> node.elements
      [] node.kind = "TemplateExpression" -> SpanExpressions(node.templateSpans)
      [] OTHER -> << >>

\* the offset at which the statements below node start
BaseOf(node, base) == IF node.kind = "Line" THEN LineStart(node.line) ELSE base

RECURSIVE resolveVariableValue_visit(_, _)

\* a declaration `variableName = "<string literal>"`
DeclaresString(declaration, variableName) ==
    /\ declaration.name = variableName
    /\ declaration.initializer.kind = "StringLiteral"

\* the first declaration of the statement that the loop of
\* astAnalyzer.ts:312-324 stops at, or 0
FirstDeclaring(declarations, variableName) ==
    IF \E i \in 1..Len(declarations) : DeclaresString(declarations[i], variableName)
    THEN CHOOSE i \in 1..Len(declarations) :
             /\ DeclaresString(declarations[i], variableName)
             /\ \A j \in 1..(i-1) : ~ DeclaresString(declarations[j], variableName)
    ELSE 0

\* resolvedValue is only ever overwritten: after the visits that assigned the
\* values `assigned` in turn (NULL: no assignment) it holds the last of them
LastAssigned(assigned) ==
    IF \E i \in 1..Len(assigned) : assigned[i] # NULL
    THEN assigned[CHOOSE i \in 1..Len(assigned) :
                      assigned[i] # NULL /\ \A j \in (i+1)..Len(assigned) : assigned[j] = NULL]
    ELSE NULL

\* forEachChild(node, visit) inside resolveVariableValue
resolveVariableValue_children(children, variableName) ==
    LastAssigned([i \in 1..Len(children) |->
                     resolveVariableValue_visit(children[i], variableName)])

\* visit(node) of astAnalyzer.ts:296-327: the value the visit leaves in
\* resolvedValue, NULL when it assigns nothing; an assignment returns from
\* this visit only, the traversal goes on
resolveVariableValue_visit(node, variableName) ==
    IF node.kind = "VariableDeclaration" /\ DeclaresString(node, variableName)
    THEN node.initializer.text
    ELSE IF node.kind = "VariableStatement"
            /\ FirstDeclaring(node.declarations, variableName) # 0
    THEN node.declarations[FirstDeclaring(node.declarations, variableName)].initializer.text
    ELSE resolveVariableValue_children(Children(node), variableName)

resolveVariableValue(variableName, sourceFile) ==
    resolveVariableValue_visit(sourceFile, variableName)

\* resolveExpression(expr, sourceFile) of astAnalyzer.ts:271-291
resolveExpression(expr, sourceFile) ==
    IF expr.kind = "Identifier" THEN resolveVariableValue(expr.text, sourceFile)
    ELSE IF expr.kind = "PropertyAccessExpression" THEN NULL
    ELSE IF expr.kind = "StringLiteral" THEN expr.text
    ELSE NULL

\* `result += expressionValue` without the fallback: null is appended as text
OrEmpty_NullText(value) == IF value = NULL THEN <<"n","u","l","l">> ELSE value

\* expressionValue || ""
OrEmpty(value) == IF value = NULL \/ value = <<>> THEN <<>> ELSE value

\* the loop over node.templateSpans (astAnalyzer.ts:254-259)
extractStringValue_spans(head, spans, sourceFile) ==
    LET R[i \in 0..Len(spans)] ==
            IF i = 0 THEN head
            ELSE R[i-1] \o OrEmpty(resolveExpression(spans[i].expression, sourceFile))
                        \o spans[i].literal
    IN R[Len(spans)]

\* extractStringValue(node, sourceFile) of astAnalyzer.ts:246-269
extractStringValue(node, sourceFile) ==
    IF node.kind = "StringLiteral" THEN node.text
    ELSE IF node.kind = "TemplateExpression"
    THEN extractStringValue_spans(node.head, node.templateSpans, sourceFile)
    ELSE IF node.kind = "NoSubstitutionTemplateLiteral" THEN node.text
    ELSE NULL

\* `let expectedPath = null; if (isStringLiteral(e) || isTemplateExpression(e)
\* || isNoSubstitutionTemplateLiteral(e)) expectedPath = extractStringValue(e)`
ExpectedPathOf(expr, sourceFile) ==
    IF expr.kind \in { "StringLiteral", "TemplateExpression",
                       "NoSubstitutionTemplateLiteral" }
    THEN extractStringValue(expr, sourceFile)
    ELSE NULL

\* the SSTHandlerContext literal: type, position, expectedPath, node
HandlerContext(type, node, expectedPath, base) ==
    [type |-> type, position |-> getStart(node, base),
     expectedPath |-> expectedPath, node |-> node]

\* properties.find(prop => isPropertyAssignment(prop) && isIdentifier(prop.name)
\* && prop.name.text === name): its index, or 0 for undefined
FindProperty(properties, name) ==
    LET Is(i) == /\ properties[i].kind = "PropertyAssignment"
                 /\ properties[i].nameKind = "Identifier"
                 /\ properties[i].name = name
    IN IF \E i \in 1..Len(properties) : Is(i)
       THEN CHOOSE i \in 1..Len(properties) : Is(i) /\ \A j \in 1..(i-1) : ~ Is(j)
       ELSE 0

RECURSIVE PropertyChainParts(_)
\* the parts isPropertyChain collects (astAnalyzer.ts:106-116)
PropertyChainParts(current) ==
    IF current.kind = "PropertyAccessExpression"
    THEN Append(PropertyChainParts(current.expression), current.name)
    ELSE IF current.kind = "Identifier" THEN << current.text >>
    ELSE << >>

isPropertyChain(expr, chain) == PropertyChainParts(expr) = chain

kwSst == <<"s","s","t">>
kwAws == <<"a","w","s">>
kwFunction == <<"F","u","n","c","t","i","o","n">>
kwCron == <<"C","r","o","n">>
kwHandler == <<"h","a","n","d","l","e","r">>
kwFunctionProp == <<"f","u","n","c","t","i","o","n">>
kwSubscribe == <<"s","u","b","s","c","r","i","b","e">>
kwNotify == <<"n","o","t","i","f","y">>
kwRoute == <<"r","o","u","t","e">>
kwNotifications == <<"n","o","t","i","f","i","c","a","t","i","o","n","s">>

\* new <chain>(...) (isSSTFunctionCall, isSSTCronCall)
IsNewOf(node, chain) ==
    /\ node.kind = "NewExpression"
    /\ node.expression.kind = "PropertyAccessExpression"
    /\ isPropertyChain(node.expression, chain)

isSSTFunctionCall(node) == IsNewOf(node, <<kwSst, kwAws, kwFunction>>)
isSSTCronCall(node) == IsNewOf(node, <<kwSst, kwAws, kwCron>>)

\* <expr>.<name>(...) (isQueueSubscribeCall, isBucketNotifyCall,
\* isApiGatewayV1RouteCall)
IsMethodCall(node, name) ==
    /\ node.kind = "CallExpression"
    /\ node.expression.kind = "PropertyAccessExpression"
    /\ node.expression.name = name

isQueueSubscribeCall(node) == IsMethodCall(node, kwSubscribe)
isBucketNotifyCall(node) == IsMethodCall(node, kwNotify)
isApiGatewayV1RouteCall(node) == IsMethodCall(node, kwRoute)

\* the context of the property found in the object literal, if any
PropertyContext(type, properties, k, sourceFile, base) ==
    IF k = 0 THEN << >>
    ELSE << HandlerContext(type, properties[k],
                           ExpectedPathOf(properties[k].initializer, sourceFile), base) >>

\* extractFunctionContext / extractCronContext (astAnalyzer.ts:119-187):
\* the context of the property propName of the second argument
extractConfigContext(type, propName, node, sourceFile, base) ==
    IF Len(node.arguments) < 2 THEN << >>
    ELSE IF node.arguments[2].kind # "ObjectLiteralExpression" THEN << >>
    ELSE PropertyContext(type, node.arguments[2].properties,
                         FindProperty(node.arguments[2].properties, propName),
                         sourceFile, base)

extractFunctionContext(node, sourceFile, base) ==
    extractConfigContext("function", kwHandler, node, sourceFile, base)

extractCronContext(node, sourceFile, base) ==
    extractConfigContext("cron", kwFunctionProp, node, sourceFile, base)

\* extractQueueContext / extractApiGatewayV1Context (astAnalyzer.ts:189-244):
\* the context of argument number k
extractArgumentContext(type, k, node, sourceFile, base) ==
    IF Len(node.arguments) < k THEN << >>
    ELSE << HandlerContext(type, node.arguments[k],
                           ExpectedPathOf(node.arguments[k], sourceFile), base) >>

extractQueueContext(node, sourceFile, base) ==
    extractArgumentContext("queue", 1, node, sourceFile, base)

extractApiGatewayV1Context(node, sourceFile, base) ==
    extractArgumentContext("apigatewayv1", 2, node, sourceFile, base)

\* what one element of the notifications array pushes (astAnalyzer.ts:386-410)
extractBucketContext_element(element, sourceFile, base) ==
    IF element.kind # "ObjectLiteralExpression" THEN << >>
    ELSE PropertyContext("bucket", element.properties,
                         FindProperty(element.properties, kwFunctionProp),
                         sourceFile, base)

\* the loop left at the first element that pushes nothing
extractBucketContext_elements_StopAtGap(elements, sourceFile, base) ==
    LET C[i \in 0..Len(elements)] ==
            IF i = 0 THEN << >>
            ELSE IF \E j \in 1..i :
                        extractBucketContext_element(elements[j], sourceFile, base) = << >>
            THEN C[i-1]
            ELSE C[i-1] \o extractBucketContext_element(elements[i], sourceFile, base)
    IN C[Len(elements)]

extractBucketContext_elements(elements, sourceFile, base) ==
    LET C[i \in 0..Len(elements)] ==
            IF i = 0 THEN << >>
            ELSE C[i-1] \o extractBucketContext_element(elements[i], sourceFile, base)
    IN C[Len(elements)]

\* pattern 2 once the notifications property was looked up (astAnalyzer.ts:384)
extractBucketContext_notifications(properties, k, sourceFile, base) ==
    IF k # 0 /\ properties[k].initializer.kind = "ArrayLiteralExpression"
    THEN extractBucketContext_elements(properties[k].initializer.elements,
                                       sourceFile, base)
    ELSE << >>

\* extractBucketContext(node, sourceFile) of astAnalyzer.ts:344-416
extractBucketContext(node, sourceFile, base) ==
    IF Len(node.arguments) = 0 THEN << >>
    ELSE IF node.arguments[1].kind \in { "StringLiteral", "TemplateExpression",
                                        "NoSubstitutionTemplateLiteral" }
    THEN << HandlerContext("bucket", node.arguments[1],
                           extractStringValue(node.arguments[1], sourceFile), base) >>
    ELSE IF node.arguments[1].kind = "ObjectLiteralExpression"
    THEN extractBucketContext_notifications(
             node.arguments[1].properties,
             FindProperty(node.arguments[1].properties, kwNotifications),
             sourceFile, base)
    ELSE << >>

\* the contexts visit pushes for the node itself (astAnalyzer.ts:16-44)
ContextsOf(node, sourceFile, base) ==
    (IF isSSTFunctionCall(node) THEN extractFunctionContext(node, sourceFile, base)
     ELSE << >>)
    \o (IF isSSTCronCall(node) THEN extractCronContext(node, sourceFile, base)
        ELSE << >>)
    \o (IF isQueueSubscribeCall(node) THEN extractQueueContext(node, sourceFile, base)
        ELSE << >>)
    \o (IF isBucketNotifyCall(node) THEN extractBucketContext(node, sourceFile, base)
        ELSE << >>)
    \o (IF isApiGatewayV1RouteCall(node)
        THEN extractApiGatewayV1Context(node, sourceFile, base)
        ELSE << >>)

RECURSIVE visit(_, _, _)

\* this.ts.forEachChild(node, visit): what the visits push, child by child
visitChildren(children, sourceFile, base) ==
    Flatten([i \in 1..Len(children) |-> visit(children[i], sourceFile, base)])

\* visit(node): the contexts pushed for node, then for its children
visit(node, sourceFile, base) ==
    ContextsOf(node, sourceFile, base)
    \o visitChildren(Children(node), sourceFile, BaseOf(node, base))

\* analyzeHandlerContexts(sourceCode, fileName) on the parsed source
analyzeHandlerContexts(sourceFile) == visit(sourceFile, sourceFile, 0)

\* The statements the analyzed files are made of, with the source text of
\* each

\* const pathName = "details";
StmtPathName ==
    VariableStatement(<<VariableDeclaration(<<"p","a","t","h","N","a","m","e">>, StringLiteral(<<"d","e","t","a","i","l","s">>, 17), 6)>>, 0)

\* const pathName = "other";
StmtPathNameAgain ==
    VariableStatement(<<VariableDeclaration(<<"p","a","t","h","N","a","m","e">>, StringLiteral(<<"o","t","h","e","r">>, 17), 6)>>, 0)

\* new sst.aws.Function("F", { handler: `functions/${pathName}.handler` });
StmtFunction ==
    ExpressionStatement(NewExpression(PropertyAccessExpression(PropertyAccessExpression(Identifier(<<"s","s","t">>, 4), <<"a","w","s">>, 4), <<"F","u","n","c","t","i","o","n">>, 4), <<StringLiteral(<<"F">>, 21), ObjectLiteralExpression(<<PropertyAssignment("Identifier", <<"h","a","n","d","l","e","r">>, TemplateExpression(<<"f","u","n","c","t","i","o","n","s","/">>, <<TemplateSpan(Identifier(<<"p","a","t","h","N","a","m","e">>, 50), <<".","h","a","n","d","l","e","r">>)>>, 37), 28)>>, 26)>>, 0), 0)

\* new sst.aws.Cron("C", { schedule: "rate(1 day)", function: "functions/cron.run" });
StmtCron ==
    ExpressionStatement(NewExpression(PropertyAccessExpression(PropertyAccessExpression(Identifier(<<"s","s","t">>, 4), <<"a","w","s">>, 4), <<"C","r","o","n">>, 4), <<StringLiteral(<<"C">>, 17), ObjectLiteralExpression(<<PropertyAssignment("Identifier", <<"s","c","h","e","d","u","l","e">>, StringLiteral(<<"r","a","t","e","(","1"," ","d","a","y",")">>, 34), 24), PropertyAssignment("Identifier", <<"f","u","n","c","t","i","o","n">>, StringLiteral(<<"f","u","n","c","t","i","o","n","s","/","c","r","o","n",".","r","u","n">>, 59), 49)>>, 22)>>, 0), 0)

\* bucket.notify({ notifications: [{ function: "a.h" }, { events: ["x"] }, 7, { "function": "c.h" }, { function: `b.${"h"}` }] });
StmtNotifyList ==
    ExpressionStatement(CallExpression(PropertyAccessExpression(Identifier(<<"b","u","c","k","e","t">>, 0), <<"n","o","t","i","f","y">>, 0), <<ObjectLiteralExpression(<<PropertyAssignment("Identifier", <<"n","o","t","i","f","i","c","a","t","i","o","n","s">>, ArrayLiteralExpression(<<ObjectLiteralExpression(<<PropertyAssignment("Identifier", <<"f","u","n","c","t","i","o","n">>, StringLiteral(<<"a",".","h">>, 44), 34)>>, 32), ObjectLiteralExpression(<<PropertyAssignment("Identifier", <<"e","v","e","n","t","s">>, ArrayLiteralExpression(<<StringLiteral(<<"x">>, 64)>>, 63), 55)>>, 53), NumericLiteral(72), ObjectLiteralExpression(<<PropertyAssignment("StringLiteral", <<"f","u","n","c","t","i","o","n">>, StringLiteral(<<"c",".","h">>, 89), 77)>>, 75), ObjectLiteralExpression(<<PropertyAssignment("Identifier", <<"f","u","n","c","t","i","o","n">>, TemplateExpression(<<"b",".">>, <<TemplateSpan(StringLiteral(<<"h">>, 115), <<>>)>>, 110), 100)>>, 98)>>, 31), 16)>>, 14)>>, 0), 0)

\* bucket.notify({ notifications: [{ function: "a.h" }, { function: "b.h" }] });
StmtNotifyTwo ==
    ExpressionStatement(CallExpression(PropertyAccessExpression(Identifier(<<"b","u","c","k","e","t">>, 0), <<"n","o","t","i","f","y">>, 0), <<ObjectLiteralExpression(<<PropertyAssignment("Identifier", <<"n","o","t","i","f","i","c","a","t","i","o","n","s">>, ArrayLiteralExpression(<<ObjectLiteralExpression(<<PropertyAssignment("Identifier", <<"f","u","n","c","t","i","o","n">>, StringLiteral(<<"a",".","h">>, 44), 34)>>, 32), ObjectLiteralExpression(<<PropertyAssignment("Identifier", <<"f","u","n","c","t","i","o","n">>, StringLiteral(<<"b",".","h">>, 65), 55)>>, 53)>>, 31), 16)>>, 14)>>, 0), 0)

\* bucket.notify("n.h");
StmtNotifyString ==
    ExpressionStatement(CallExpression(PropertyAccessExpression(Identifier(<<"b","u","c","k","e","t">>, 0), <<"n","o","t","i","f","y">>, 0), <<StringLiteral(<<"n",".","h">>, 14)>>, 0), 0)

\* queue.subscribe("a.h").subscribe("b.h");
StmtSubscribeChain ==
    ExpressionStatement(CallExpression(PropertyAccessExpression(CallExpression(PropertyAccessExpression(Identifier(<<"q","u","e","u","e">>, 0), <<"s","u","b","s","c","r","i","b","e">>, 0), <<StringLiteral(<<"a",".","h">>, 16)>>, 0), <<"s","u","b","s","c","r","i","b","e">>, 0), <<StringLiteral(<<"b",".","h">>, 33)>>, 0), 0)

\* new sst.aws.Function("G", { environment: { U: queue.subscribe("q.h") }, handler: "g.h" });
StmtFunctionNested ==
    ExpressionStatement(NewExpression(PropertyAccessExpression(PropertyAccessExpression(Identifier(<<"s","s","t">>, 4), <<"a","w","s">>, 4), <<"F","u","n","c","t","i","o","n">>, 4), <<StringLiteral(<<"G">>, 21), ObjectLiteralExpression(<<PropertyAssignment("Identifier", <<"e","n","v","i","r","o","n","m","e","n","t">>, ObjectLiteralExpression(<<PropertyAssignment("Identifier", <<"U">>, CallExpression(PropertyAccessExpression(Identifier(<<"q","u","e","u","e">>, 46), <<"s","u","b","s","c","r","i","b","e">>, 46), <<StringLiteral(<<"q",".","h">>, 62)>>, 46), 43)>>, 41), 28), PropertyAssignment("Identifier", <<"h","a","n","d","l","e","r">>, StringLiteral(<<"g",".","h">>, 81), 72)>>, 26)>>, 0), 0)

\* api.route("GET /", `functions/${missing}${obj.prop}.handler`);
StmtRoute ==
    ExpressionStatement(CallExpression(PropertyAccessExpression(Identifier(<<"a","p","i">>, 0), <<"r","o","u","t","e">>, 0), <<StringLiteral(<<"G","E","T"," ","/">>, 10), TemplateExpression(<<"f","u","n","c","t","i","o","n","s","/">>, <<TemplateSpan(Identifier(<<"m","i","s","s","i","n","g">>, 32), <<>>), TemplateSpan(PropertyAccessExpression(Identifier(<<"o","b","j">>, 42), <<"p","r","o","p">>, 42), <<".","h","a","n","d","l","e","r">>)>>, 19)>>, 0), 0)

\* const run = () => { const pathName = "inner"; queue.subscribe(`f/${pathName}.h`); };
StmtInnerScope ==
    VariableStatement(<<VariableDeclaration(<<"r","u","n">>, ArrowFunction(<<VariableStatement(<<VariableDeclaration(<<"p","a","t","h","N","a","m","e">>, StringLiteral(<<"i","n","n","e","r">>, 37), 26)>>, 20), ExpressionStatement(CallExpression(PropertyAccessExpression(Identifier(<<"q","u","e","u","e">>, 46), <<"s","u","b","s","c","r","i","b","e">>, 46), <<TemplateExpression(<<"f","/">>, <<TemplateSpan(Identifier(<<"p","a","t","h","N","a","m","e">>, 67), <<".","h">>)>>, 62)>>, 46), 46)>>, 12), 6)>>, 0)

MaxStatements == 2

StatementPool ==
    { StmtPathName, StmtPathNameAgain, StmtFunction, StmtCron, StmtNotifyList,
      StmtNotifyTwo, StmtNotifyString, StmtSubscribeChain, StmtFunctionNested,
      StmtRoute, StmtInnerScope }

InitA ==
    /\ aFile \in { SourceFileOf(q) : q \in SeqsUpTo(StatementPool, MaxStatements) }
    /\ aContexts = << >>
    /\ aCalled = FALSE
    /\ IdleCore /\ IdleI /\ IdleE /\ IdleF /\ IdleU /\ IdleC /\ IdleR /\ IdleQ /\ IdleM /\ IdleL /\ IdleK /\ IdleN /\ IdleW

\* one call analyzeHandlerContexts(sourceCode, fileName)
AnalyzeHandlerContexts ==
    /\ ~ aCalled
    /\ aContexts' = analyzeHandlerContexts(aFile)
    /\ aCalled' = TRUE
    /\ UNCHANGED aFile
    /\ UNCHANGED exceptA

NextA == AnalyzeHandlerContexts

----------------------------------------------------------------------------
\* The export scan: parseExportedFunctions, isFunction, isValidFunctionCall
\* (fileScanner.ts:276-422; the same code again at fileScanner.ts:676-822)

RECURSIVE getText(_)

ArgumentTexts(arguments) ==
    Join([i \in 1..Len(arguments) |-> getText(arguments[i])], <<",", " ">>)

\* node.getText(): the source text of an expression
getText(node) ==
    CASE node.kind = "Identifier" -> node.text
      [] node.kind = "StringLiteral" -> <<"\"">> \o node.text \o <<"\"">>
      [] node.kind = "PropertyAccessExpression" ->
             getText(node.expression) \o <<".">> \o node.name
      [] node.kind = "CallExpression" ->
             getText(node.expression) \o <<"(">> \o ArgumentTexts(node.arguments)
                                     \o <<")">>
      [] OTHER -> << >>

kwHandle == <<"h","a","n","d","l","e">>
kwMiddleware == <<"m","i","d","d","l","e","w","a","r","e">>
kwWithMiddleware == <<"w","i","t","h","M","i","d","d","l","e","w","a","r","e">>
kwCreateHandler == <<"c","r","e","a","t","e","H","a","n","d","l","e","r">>
kwWrap == <<"w","r","a","p">>
kwCreateAWSHandler == <<"c","r","e","a","t","e","A","W","S","H","a","n","d","l","e","r">>
kwCreate == <<"c","r","e","a","t","e">>
kwBuild == <<"b","u","i","l","d">>
kwConfigure == <<"c","o","n","f","i","g","u","r","e">>
kwGet == <<"g","e","t">>
kwDefault == <<"d","e","f","a","u","l","t">>

\* fileScanner.ts:381-388 and fileScanner.ts:401
HandlerFactoryNames ==
    { kwHandle, kwMiddleware, kwWithMiddleware, kwCreateHandler, kwWrap,
      kwCreateAWSHandler }
HandlerFactoryProperties == { kwHandle, kwHandler, kwCreate, kwBuild, kwConfigure }

\* isValidFunctionCall(callExpression) of fileScanner.ts:376-422: the checks
\* in the order of the code
isValidFunctionCall(callExpression) ==
    IF /\ callExpression.expression.kind = "Identifier"
       /\ callExpression.expression.text \in HandlerFactoryNames
    THEN TRUE
    ELSE IF /\ callExpression.expression.kind = "PropertyAccessExpression"
            /\ callExpression.expression.name \in HandlerFactoryProperties
    THEN TRUE
    ELSE IF /\ callExpression.expression.kind = "PropertyAccessExpression"
            /\ \/ Includes(getText(callExpression.expression),
                            <<"s","s","t",".","a","w","s",".">>)
               \/ Includes(getText(callExpression.expression), <<".","g","e","t","(">>)
    THEN FALSE
    ELSE FALSE

\* isFunction(node) of fileScanner.ts:340-374
isFunction(node) ==
    IF node.kind = "ArrowFunction" THEN TRUE
    ELSE IF node.kind = "FunctionExpression" THEN TRUE
    ELSE IF node.kind \in { "MethodDeclaration", "GetAccessor", "SetAccessor" } THEN TRUE
    ELSE IF node.kind = "CallExpression" THEN isValidFunctionCall(node)
    ELSE IF node.kind = "AwaitExpression" /\ node.expression.kind = "CallExpression"
    THEN isValidFunctionCall(node.expression)
    ELSE IF node.kind = "NewExpression" THEN FALSE
    ELSE IF node.kind = "ConditionalExpression" THEN FALSE
    ELSE FALSE

\* the forEach over declarationList.declarations (fileScanner.ts:301-308)
ExportedDeclarationNames(declarations) ==
    Flatten([i \in 1..Len(declarations) |->
                IF declarations[i].initializer # NoNode
                   /\ isFunction(declarations[i].initializer)
                THEN << declarations[i].name >> ELSE << >>])

\* what visit pushes for the node itself (fileScanner.ts:288-328)
parseExportedFunctions_pushed(node) ==
    (IF node.kind = "ExportAssignment" /\ node.expression.kind = "Identifier"
     THEN << kwDefault >> ELSE << >>)
    \o (IF node.kind = "VariableStatement" /\ "export" \in node.modifiers
        THEN ExportedDeclarationNames(node.declarations) ELSE << >>)
    \o (IF node.kind = "FunctionDeclaration" /\ "export" \in node.modifiers
        THEN IF "default" \in node.modifiers THEN << kwDefault >>
             ELSE IF node.name # << >> THEN << node.name >>
             ELSE << >>
        ELSE << >>)

RECURSIVE parseExportedFunctions_visit(_)
\* visit(node): the names pushed for node, then for its children
parseExportedFunctions_visit(node) ==
    parseExportedFunctions_pushed(node)
    \o Flatten([i \in 1..Len(Children(node)) |->
                   parseExportedFunctions_visit(Children(node)[i])])

\* parseExportedFunctions(filePath) on the parsed source: [...new Set(exports)]
parseExportedFunctions(sourceFile) == Dedup(parseExportedFunctions_visit(sourceFile))

\* The statements the scanned files are made of, with their source text

\* export const handler = async () => { const inner = () => {}; };
ExpArrow ==
    WithModifiers(VariableStatement(<<VariableDeclaration(<<"h","a","n","d","l","e","r">>, ArrowFunction(<<VariableStatement(<<VariableDeclaration(<<"i","n","n","e","r">>, ArrowFunction(<<>>, 51), 43)>>, 37)>>, 23), 13)>>, 0), {"export"})

\* const notExported = () => {};
ExpNotExported ==
    VariableStatement(<<VariableDeclaration(<<"n","o","t","E","x","p","o","r","t","e","d">>, ArrowFunction(<<>>, 20), 6)>>, 0)

\* export function main() {}
ExpFunction ==
    WithModifiers(FunctionDeclaration(<<"m","a","i","n">>, <<>>, 0), {"export"})

\* function helper() {}
ExpLocalFunction ==
    FunctionDeclaration(<<"h","e","l","p","e","r">>, <<>>, 0)

\* export default function () {}
ExpDefaultFunction ==
    WithModifiers(FunctionDeclaration(<<>>, <<>>, 0), {"export", "default"})

\* export default handler;
ExpDefaultIdentifier ==
    ExportAssignment(Identifier(<<"h","a","n","d","l","e","r">>, 15), 0)

\* export default async () => {};
ExpDefaultArrow ==
    ExportAssignment(ArrowFunction(<<>>, 15), 0)

\* export default withMiddleware(run);
ExpDefaultCall ==
    ExportAssignment(CallExpression(Identifier(<<"w","i","t","h","M","i","d","d","l","e","w","a","r","e">>, 15), <<Identifier(<<"r","u","n">>, 30)>>, 15), 0)

\* export { helper, notExported };
ExpClause ==
    ExportDeclaration(<<<<"h","e","l","p","e","r">>, <<"n","o","t","E","x","p","o","r","t","e","d">>>>, 0)

\* export const api = new sst.aws.Function("A", {});
ExpResource ==
    WithModifiers(VariableStatement(<<VariableDeclaration(<<"a","p","i">>, NewExpression(PropertyAccessExpression(PropertyAccessExpression(Identifier(<<"s","s","t">>, 23), <<"a","w","s">>, 23), <<"F","u","n","c","t","i","o","n">>, 23), <<StringLiteral(<<"A">>, 40), ObjectLiteralExpression(<<>>, 45)>>, 19), 13)>>, 0), {"export"})

\* export let wrapped = withMiddleware(run), count = 3;
ExpWrapped ==
    WithModifiers(VariableStatement(<<VariableDeclaration(<<"w","r","a","p","p","e","d">>, CallExpression(Identifier(<<"w","i","t","h","M","i","d","d","l","e","w","a","r","e">>, 21), <<Identifier(<<"r","u","n">>, 36)>>, 21), 11), VariableDeclaration(<<"c","o","u","n","t">>, NumericLiteral(50), 42)>>, 0), {"export"})

\* export const handler = function () {}, pending;
ExpHandlerAgain ==
    WithModifiers(VariableStatement(<<VariableDeclaration(<<"h","a","n","d","l","e","r">>, FunctionExpression(<<>>, 23), 13), VariableDeclaration(<<"p","e","n","d","i","n","g">>, NoNode, 39)>>, 0), {"export"})

ExportPool ==
    { ExpArrow, ExpNotExported, ExpFunction, ExpLocalFunction, ExpDefaultFunction,
      ExpDefaultIdentifier, ExpDefaultArrow, ExpDefaultCall, ExpClause,
      ExpResource, ExpWrapped, ExpHandlerAgain }

InitE ==
    /\ eFile \in { SourceFileOf(q) : q \in SeqsUpTo(ExportPool, MaxStatements) }
    /\ eExports = << >>
    /\ eCalled = FALSE
    /\ IdleCore /\ IdleI /\ IdleA /\ IdleF /\ IdleU /\ IdleC /\ IdleR /\ IdleQ /\ IdleM /\ IdleL /\ IdleK /\ IdleN /\ IdleW

\* one call parseExportedFunctions(filePath) on a readable file
ParseExportedFunctions ==
    /\ ~ eCalled
    /\ eExports' = parseExportedFunctions(eFile)
    /\ eCalled' = TRUE
    /\ UNCHANGED eFile
    /\ UNCHANGED exceptE

NextE == ParseExportedFunctions

\* The initializer expressions isFunction is tried on

kwRun == <<"r","u","n">>
kwApp == <<"a","p","p">>
kwClient == <<"c","l","i","e","n","t">>
kwRouter == <<"R","o","u","t","e","r">>
kwUse == <<"u","s","e">>

\* callees that are bare identifiers, and callees that are property accesses
IdentifierCallees ==
    { Identifier(n, 0) : n \in HandlerFactoryNames \cup { kwRun, kwHandler, kwCreate } }

\* app, sst, sst.aws.Router, client.get("x")
CalleeObjects ==
    { Identifier(kwApp, 0),
      Identifier(kwSst, 0),
      PropertyAccessExpression(
          PropertyAccessExpression(Identifier(kwSst, 0), kwAws, 0), kwRouter, 0),
      CallExpression(PropertyAccessExpression(Identifier(kwClient, 0), kwGet, 0),
                     << StringLiteral(<<"x">>, 11) >>, 0) }

PropertyCallees ==
    { PropertyAccessExpression(o, p, 0) :
        o \in CalleeObjects,
        p \in HandlerFactoryProperties \cup { kwGet, kwUse, kwWrap } }

Calls == { CallExpression(c, << >>, 0) : c \in IdentifierCallees \cup PropertyCallees }

Initializers ==
    Calls
    \cup { AwaitExpression(c, 0) : c \in Calls }
    \cup { AwaitExpression(AwaitExpression(c, 0), 0) : c \in Calls }
    \cup { ArrowFunction(<< >>, 0), FunctionExpression(<< >>, 0),
           NewExpression(
               PropertyAccessExpression(
                   PropertyAccessExpression(Identifier(kwSst, 4), kwAws, 4),
                   kwFunction, 4), << >>, 0),
           NewExpression(Identifier(kwHandle, 4), << >>, 0),
           ConditionalExpression(Identifier(kwRun, 0), ArrowFunction(<< >>, 6),
                                 ArrowFunction(<< >>, 17), 0),
           AwaitExpression(Identifier(kwHandle, 6), 0),
           Identifier(kwHandle, 0), StringLiteral(kwHandle, 0),
           ObjectLiteralExpression(<< >>, 0), NumericLiteral(0) }

InitF ==
    /\ fNode \in Initializers
    /\ fResult = FALSE
    /\ fCalled = FALSE
    /\ IdleCore /\ IdleI /\ IdleA /\ IdleE /\ IdleU /\ IdleC /\ IdleR /\ IdleQ /\ IdleM /\ IdleL /\ IdleK /\ IdleN /\ IdleW

\* one call isFunction(declaration.initializer)
IsFunction ==
    /\ ~ fCalled
    /\ fResult' = isFunction(fNode)
    /\ fCalled' = TRUE
    /\ UNCHANGED fNode
    /\ UNCHANGED exceptF

NextF == IsFunction

----------------------------------------------------------------------------
\* StatisticsAnalyzer.analyzeUsageStatistics (statisticsAnalyzer.ts:17-101)

\* the top-N of mostUsedHandlers: `.slice(0, 10)`
MostUsedLimit == 10

\* the null result
NoStatistics == [isNull |-> TRUE]

HandlerUsage(handlerPath, usageCount, locations) ==
    [handlerPath |-> handlerPath, usageCount |-> usageCount, locations |-> locations]

\* `${handler.relativePath.replace(/\.ts$/, "")}.${func}`
HandlerPathOf(handler, func) == StripTs(handler.relativePath) \o <<".">> \o func

\* the handler paths of the catalog in the order of the two loops; a Set
allHandlerPaths(handlers) ==
    Dedup(Flatten([h \in 1..Len(handlers) |->
                     [k \in 1..Len(handlers[h].exportedFunctions) |->
                        HandlerPathOf(handlers[h], handlers[h].exportedFunctions[k])]]))

\* the usage map after the seeding loops, in insertion order
SeededUsages(paths) == [i \in 1..Len(paths) |-> HandlerUsage(paths[i], 0, << >>)]

\* filePath.replace(/^.*\//, "")
BaseName(filePath) == SubSeq(filePath, LastIndexOf(filePath, "/") + 1, Len(filePath))

\* enhanceContextWithLocation and getLocationInfo: line and column of the
\* context's position, file name, context type (contextInfo, a best-effort
\* annotation read from the source text, is left out of the record)
getLocationInfo(context, filePath) ==
    [filePath |-> BaseName(filePath),
     line |-> (context.position \div 200) + 1,
     column |-> (context.position % 200) + 1,
     contextType |-> context.type]

\* handlerUsages.get(path): the index of the entry, 0 for undefined
UsageIndex(usages, path) ==
    IF \E i \in 1..Len(usages) : usages[i].handlerPath = path
    THEN CHOOSE i \in 1..Len(usages) : usages[i].handlerPath = path
    ELSE 0

\* the body of the loop over contexts (statisticsAnalyzer.ts:49-72)
recordUsageAt(usages, context, filePath, at) ==
    IF ~ Truthy(context.expectedPath) THEN usages
    ELSE IF at # 0
    THEN [usages EXCEPT ![at].usageCount = @ + 1,
                        ![at].locations = Append(@, getLocationInfo(context, filePath))]
    ELSE Append(usages, HandlerUsage(context.expectedPath, 1,
                                     << getLocationInfo(context, filePath) >>))

recordUsage(usages, context, filePath) ==
    recordUsageAt(usages, context, filePath, UsageIndex(usages, context.expectedPath))

\* the contexts of the files that could be read, in the order of the two
\* loops; a file whose read throws is skipped (statisticsAnalyzer.ts:73-75)
ContextsOfFiles(files) ==
    Flatten([f \in 1..Len(files) |->
               IF files[f].readable
               THEN [i \in 1..Len(files[f].contexts) |->
                       [context |-> files[f].contexts[i], filePath |-> files[f].filePath]]
               ELSE << >>])

RECURSIVE recordUsages(_, _)
\* the two loops over the contexts found, in order: the first half of them,
\* then the second half, starting from what the first half left
recordUsages(usages, found) ==
    IF Len(found) = 0 THEN usages
    ELSE IF Len(found) = 1 THEN recordUsage(usages, found[1].context, found[1].filePath)
    ELSE LET first == recordUsages(usages, SubSeq(found, 1, Len(found) \div 2))
         IN \* entries are added to the map, never removed
            IF Len(first) >= Len(usages)
            THEN recordUsages(first, SubSeq(found, (Len(found) \div 2) + 1, Len(found)))
            ELSE first

RECURSIVE InsertByCount(_, _)
\* insert usage after every entry that does not count strictly less
InsertByCount(sorted, usage) ==
    IF Len(sorted) = 0 THEN << usage >>
    ELSE IF usage.usageCount > sorted[1].usageCount
         THEN << usage >> \o sorted
         ELSE << sorted[1] >> \o InsertByCount(Tail(sorted), usage)

RECURSIVE SortByCount(_)
\* .sort((a, b) => b.usageCount - a.usageCount), stable
SortByCount(usages) ==
    IF Len(usages) = 0 THEN << >>
    ELSE InsertByCount(SortByCount(SubSeq(usages, 1, Len(usages) - 1)),
                       usages[Len(usages)])

\* .filter((h) => h.usageCount > 0)
UsedOnly(usages) == SelectSeq(usages, LAMBDA h : h.usageCount > 0)

\* the top of the list without the sort
mostUsedHandlers_Unsorted(handlerUsageArray) ==
    Slice(UsedOnly(handlerUsageArray), MostUsedLimit)

\* statisticsAnalyzer.ts:79-82
mostUsedHandlers(handlerUsageArray) ==
    Slice(SortByCount(UsedOnly(handlerUsageArray)), MostUsedLimit)

\* Array.from(allHandlerPaths).filter(path => handlerUsages.get(path)?.usageCount === 0)
unusedHandlers(paths, handlerUsageArray) ==
    SelectSeq(paths, LAMBDA path :
        /\ UsageIndex(handlerUsageArray, path) # 0
        /\ handlerUsageArray[UsageIndex(handlerUsageArray, path)].usageCount = 0)

RECURSIVE SumOfCounts(_)
\* handlerUsageArray.reduce((sum, h) => sum + h.usageCount, 0)
SumOfCounts(usages) ==
    IF Len(usages) = 0 THEN 0
    ELSE SumOfCounts(SubSeq(usages, 1, Len(usages) - 1)) + usages[Len(usages)].usageCount

\* the object returned at statisticsAnalyzer.ts:90-96
UsageStatistics(paths, handlerUsageArray) ==
    [isNull |-> FALSE,
     totalHandlers |-> Len(paths),
     totalUsages |-> SumOfCounts(handlerUsageArray),
     handlerUsages |-> handlerUsageArray,
     mostUsedHandlers |-> mostUsedHandlers(handlerUsageArray),
     unusedHandlers |-> unusedHandlers(paths, handlerUsageArray)]

analyzeUsageStatisticsOf(paths, files) ==
    UsageStatistics(paths, recordUsages(SeededUsages(paths), ContextsOfFiles(files)))

\* analyzeUsageStatistics() given what findProjectConfig, scanHandlers and
\* findAllTypeScriptFiles with analyzeHandlerContexts resolved to
analyzeUsageStatistics(config, handlers, files) ==
    IF ~ config THEN NoStatistics
    ELSE analyzeUsageStatisticsOf(allHandlerPaths(handlers), files)

\* The projects the statistics are taken of

\* the largest number of distinct handler paths the project files refer to
MaxUsedPaths == 12

FunctionNames == << <<"h">>, <<"g">>, <<"k">> >>

\* relative path of catalog file number f: a, b.ts, c, d.ts, ...
RelativePathNo(f) ==
    IF f % 2 = 0 THEN << LowerLetters[f], ".", "t", "s" >> ELSE << LowerLetters[f] >>

\* handler path number k: a.h, a.g, a.k, b.h, ...
PathNo(k) == << LowerLetters[((k - 1) \div 3) + 1], "." >> \o FunctionNames[((k - 1) % 3) + 1]

\* a catalog of nFiles files with the three functions each
CatalogOf(nFiles) ==
    [f \in 1..nFiles |->
        [filePath |-> <<"/", "w", "/">> \o RelativePathNo(f),
         relativePath |-> RelativePathNo(f),
         exportedFunctions |-> FunctionNames]]

ContextTypes == << "function", "cron", "queue", "bucket", "apigatewayv1" >>

\* how often path number k is referred to, under profile p
TimesUsed(p, k) ==
    CASE p = 1 -> 1
      [] p = 2 -> (k % 3) + 1
      [] OTHER -> ((k * 5) % 4) + 1

\* the expected paths met in the files: round after round, the paths
\* first+1 .. first+n that are referred to at least that many times, after
\* the extra ones (null, empty)
ReferencedPaths(p, first, n, extra) ==
    extra \o Flatten([r \in 1..4 |->
                        Flatten([k \in 1..n |->
                                   IF TimesUsed(p, first + k) >= r
                                   THEN << PathNo(first + k) >> ELSE << >>])])

\* contexts with these expected paths, one per line
UsageContexts(paths) ==
    [i \in 1..Len(paths) |->
        [type |-> ContextTypes[(i % 5) + 1], position |-> LineStart(i) + 10 + i,
         expectedPath |-> paths[i]]]

\* three walked files: the first `cut` paths, a file that cannot be read, the rest
FilesCutAt(paths, cut) ==
    << [filePath |-> <<"/","w","/","i","n","f","r","a","/","a","p","i",".","t","s">>,
        readable |-> TRUE, contexts |-> UsageContexts(SubSeq(paths, 1, cut))],
       [filePath |-> <<"/","w","/","g","o","n","e",".","t","s">>,
        readable |-> FALSE, contexts |-> << >>],
       [filePath |-> <<"/","w","/","s","s","t",".","c","o","n","f","i","g",".","t","s">>,
        readable |-> TRUE, contexts |-> UsageContexts(SubSeq(paths, cut + 1, Len(paths)))] >>

FilesWith(paths, cut) == FilesCutAt(paths, MinOf(cut, Len(paths)))

ExtraPaths == { << >>, << NULL >>, << <<>> >>, << NULL, <<>>, NULL >> }

ProjectFiles ==
    { FilesWith(ReferencedPaths(p, first, n, extra), cut) :
        p \in 1..3, first \in {0, 2}, n \in 0..MaxUsedPaths, extra \in ExtraPaths,
        cut \in {0, 3} }

InitU ==
    /\ uConfig \in BOOLEAN
    /\ uHandlers \in { CatalogOf(nFiles) : nFiles \in {0, 1, 3, 5} }
    /\ uFiles \in ProjectFiles
    /\ uStats = NoStatistics
    /\ uCalled = FALSE
    /\ IdleCore /\ IdleI /\ IdleA /\ IdleE /\ IdleF /\ IdleC /\ IdleR /\ IdleQ /\ IdleM /\ IdleL /\ IdleK /\ IdleN /\ IdleW

\* one call analyzeUsageStatistics()
AnalyzeUsageStatistics ==
    /\ ~ uCalled
    /\ uStats' = analyzeUsageStatistics(uConfig, uHandlers, uFiles)
    /\ uCalled' = TRUE
    /\ UNCHANGED <<uConfig, uHandlers, uFiles>>
    /\ UNCHANGED exceptU

NextU == AnalyzeUsageStatistics

----------------------------------------------------------------------------
\* The command validate of the CLI (cli/index.ts:16-77 and 250-258)

\* process.exit(code); the command returned without it
ExitWith(code) == [ended |-> TRUE, code |-> code]
NotExited == [ended |-> FALSE]

\* options: undefined, or an object with an optional path and json flag
NoOptions == [given |-> FALSE]
Options(hasPath, json) == [given |-> TRUE, hasPath |-> hasPath, json |-> json]

\* const opts = options || {}; opts.json
OptsJson(options) == options.given /\ options.json

\* the ValidationResult of validateProject: isValid is errors.length === 0,
\* warnings is always empty (validator.ts:26-80)
ValidationResult_of(errors) ==
    [isValid |-> Len(errors) = 0, errors |-> errors, warnings |-> << >>]

OutLine(kind, text) == [kind |-> kind, text |-> text]
BlankLine == OutLine("blank", << >>)

\* the keys of errorsByFile in insertion order
ErrorFiles(errors) == Dedup([i \in 1..Len(errors) |-> errors[i].filePath])

\* the lines printed for one error (cli/index.ts:53-59)
ErrorLines(error) ==
    << OutLine("error", error.message) >>
    \o (IF error.suggestions > 0 THEN << OutLine("suggestions", error.message) >>
        ELSE << >>)

\* the lines printed for one entry of errorsByFile (cli/index.ts:48-61)
FileLines(filePath, errors) ==
    (IF Len(filePath) > 0 THEN << OutLine("file", filePath) >> ELSE << >>)
    \o Flatten([i \in 1..Len(errors) |->
                   IF errors[i].filePath = filePath THEN ErrorLines(errors[i]) ELSE << >>])
    \o << BlankLine >>

\* the human-readable report (cli/index.ts:32-71)
HumanLines(result) ==
    (IF result.isValid THEN << OutLine("valid", << >>) >>
     ELSE << OutLine("found", << >>), BlankLine >>
          \o Flatten([k \in 1..Len(ErrorFiles(result.errors)) |->
                         FileLines(ErrorFiles(result.errors)[k], result.errors)]))
    \o (IF Len(result.warnings) > 0 THEN << OutLine("warnings", << >>), BlankLine >>
        ELSE << >>)

\* validateCommand(options): what it prints and whether it calls process.exit
validateCommand(options, loaded, result) ==
    IF ~ loaded
    THEN [output |-> << BlankLine, OutLine("failed", << >>) >>,
          exit |-> IF ~ options.given THEN ExitWith(1) ELSE NotExited]
    ELSE IF OptsJson(options)
    THEN [output |-> << BlankLine, OutLine("json", << >>) >>, exit |-> NotExited]
    ELSE [output |-> << BlankLine >> \o HumanLines(result),
          exit |-> IF ~ options.given
                   THEN ExitWith(IF result.isValid THEN 0 ELSE 1)
                   ELSE NotExited]

\* a process whose command returned without process.exit ends, once nothing
\* is pending, with process.exitCode, which nothing sets: 0
EndOfProcess(invocation, exit) ==
    IF exit.ended THEN exit
    ELSE IF invocation = "commander" THEN ExitWith(0)
    ELSE NotExited

\* The runs of the command

\* the largest number of errors of a validation result
MaxErrors == 2

ErrorNo(type, filePath, suggestions) ==
    [type |-> type, message |-> <<type>> \o filePath,
     filePath |-> filePath, suggestions |-> suggestions]

ErrorPool ==
    { ErrorNo("invalid-format", <<"/","w","/","a",".","t","s">>, 0),
      ErrorNo("function-not-found", <<"/","w","/","a",".","t","s">>, 2),
      ErrorNo("file-not-found", <<"/","w","/","b",".","t","s">>, 0),
      ErrorNo("file-not-found", << >>, 0) }

\* program.command("validate").option("-p, --path <path>", ..., process.cwd())
\* .option("--json").action(validateCommand): the action is called with the
\* parsed options object, path always set
CommandLineOptions == { Options(TRUE, json) : json \in BOOLEAN }

DirectOptions == { NoOptions } \cup { Options(p, json) : p \in BOOLEAN, json \in BOOLEAN }

InitC ==
    /\ cInvocation \in { "commander", "direct" }
    /\ cOptions \in IF cInvocation = "commander" THEN CommandLineOptions ELSE DirectOptions
    /\ cLoaded \in BOOLEAN
    /\ cResult \in { ValidationResult_of(errors) : errors \in SeqsUpTo(ErrorPool, MaxErrors) }
    /\ cOutput = << >>
    /\ cExit = NotExited
    /\ cCalled = FALSE
    /\ IdleCore /\ IdleI /\ IdleA /\ IdleE /\ IdleF /\ IdleU /\ IdleR /\ IdleQ /\ IdleM /\ IdleL /\ IdleK /\ IdleN /\ IdleW

\* one run of validateCommand, to the end of the process when the command
\* line started it
ValidateCommand ==
    /\ ~ cCalled
    /\ cOutput' = validateCommand(cOptions, cLoaded, cResult).output
    /\ cExit' = EndOfProcess(cInvocation, validateCommand(cOptions, cLoaded, cResult).exit)
    /\ cCalled' = TRUE
    /\ UNCHANGED <<cInvocation, cOptions, cLoaded, cResult>>
    /\ UNCHANGED exceptC

NextC == ValidateCommand

----------------------------------------------------------------------------
\* SSTCompletionProvider.refreshHandlers (completionProvider.ts:21-27), called
\* by the constructor and by the file watcher and save handlers
\* (diagnosticProvider.ts:261-283), one call per event, calls overlapping

\* the largest number of refreshHandlers calls, the constructor's included
MaxRefreshes == 3

\* a call: waiting for scanHandlers ("scan"), resumed with its result not yet
\* assigned ("scanned"), in the loop ("parse", at handler number next), "done"
RefreshCall(pc, handlers, next) == [pc |-> pc, handlers |-> handlers, next |-> next]

\* this.cachedHandlers
cachedHandlers == IF rCachedOf = 0 THEN << >> ELSE rCalls[rCachedOf].handlers

\* HandlerParser.parseExportedFunctions(filePath) (part_002:6-68): the names
\* the file exports now, [] when it cannot be read
parseExportedFunctionsAt(filePath) ==
    IF FileIndex(PathDirname(filePath).segs, filePath.segs[Len(filePath.segs)]) = 0
    THEN << >>
    ELSE parseExportedFunctionsOfFile(
             FileIndex(PathDirname(filePath).segs, filePath.segs[Len(filePath.segs)]))

InitR ==
    /\ disk \in { [marker |-> {DirW},
                   state |-> [d \in FragileDirs |-> "ok"],
                   tsconfig |-> [d \in TsDirs |-> IF d = DirW THEN t ELSE TsNone],
                   files |-> InitFiles]
                  : t \in { TsNone, TsOnlyA } }
    /\ cwd = DirP
    /\ fsChanges = 0
    /\ rScanner = NewScanner
    /\ rCalls = << RefreshCall("scan", << >>, 0) >>
    /\ rCachedOf = 0
    /\ IdleV /\ IdleG /\ IdleS1 /\ IdleS2 /\ IdleP /\ IdleI /\ IdleA /\ IdleE /\ IdleF /\ IdleU /\ IdleC /\ IdleQ /\ IdleM /\ IdleL /\ IdleK /\ IdleN /\ IdleW

\* a handler file is created, edited or deleted; the watcher calls
\* refreshHandlers, which calls scanHandlers and waits
FileEvent ==
    /\ Len(rCalls) < MaxRefreshes
    /\ WriteFile
    /\ rCalls' = Append(rCalls, RefreshCall("scan", << >>, 0))
    /\ UNCHANGED <<rScanner, rCachedOf>>
    /\ UNCHANGED exceptDR

\* the scanHandlers() of call i reads the disk
RefreshScanned(i, scan) ==
    /\ rScanner' = scan.s
    /\ rCalls' = [rCalls EXCEPT ![i] =
                    IF scan.res.status = "ok"
                    THEN RefreshCall("scanned", scan.res.value, 0)
                    ELSE RefreshCall("done", << >>, 0)]
    /\ UNCHANGED rCachedOf
    /\ UNCHANGED <<dvars, exceptDR>>

RefreshScan ==
    \E i \in 1..Len(rCalls) :
        /\ rCalls[i].pc = "scan"
        /\ RefreshScanned(i, scanHandlers(rScanner))

\* call i resumes after its await: this.cachedHandlers = <its result>, and
\* the loop starts on that array
RefreshAssign ==
    \E i \in 1..Len(rCalls) :
        /\ rCalls[i].pc = "scanned"
        /\ rCachedOf' = i
        /\ rCalls' = [rCalls EXCEPT ![i].pc =
                        IF Len(rCalls[i].handlers) = 0 THEN "done" ELSE "parse",
                      ![i].next = 1]
        /\ UNCHANGED rScanner
        /\ UNCHANGED <<dvars, exceptDR>>

\* one round of the loop of call i:
\* handler.exportedFunctions = await parseExportedFunctions(handler.filePath)
RefreshParse ==
    \E i \in 1..Len(rCalls) :
        /\ rCalls[i].pc = "parse"
        /\ rCalls' = [rCalls EXCEPT
              ![i].handlers[rCalls[i].next].exportedFunctions =
                  parseExportedFunctionsAt(rCalls[i].handlers[rCalls[i].next].filePath),
              ![i].next = @ + 1,
              ![i].pc = IF rCalls[i].next = Len(rCalls[i].handlers) THEN "done" ELSE "parse"]
        /\ UNCHANGED <<rScanner, rCachedOf>>
        /\ UNCHANGED <<dvars, exceptDR>>

NextR == FileEvent \/ RefreshScan \/ RefreshAssign \/ RefreshParse

----------------------------------------------------------------------------
\* One file under the two selections: the loop body of the validator's
\* findAllTypeScriptFiles (validator.ts:216-240) and the scanner's
\* shouldIncludeFile (fileScanner.ts:168-203), on the same pattern lists

\* entry.name.endsWith(".ts") and the pattern checks of validator.ts:216-240
SelectedByValidator(relativePath, includePatterns, excludePatterns) ==
    /\ EndsWith(relativePath, <<".", "t", "s">>)
    /\ SelectedByConfig(relativePath, [includePatterns |-> includePatterns,
                                       excludePatterns |-> excludePatterns])

InitQ ==
    /\ qRel \in { r \in RelativeFiles : EndsWith(r[Len(r)], <<".", "t", "s">>) }
    /\ qInclude \in IncludeLists
    /\ qExclude \in ExcludeLists
    /\ qValidator = FALSE
    /\ qScanner = FALSE
    /\ qCalled = FALSE
    /\ IdleCore /\ IdleI /\ IdleA /\ IdleE /\ IdleF /\ IdleU /\ IdleC /\ IdleR /\ IdleM /\ IdleL /\ IdleK /\ IdleN /\ IdleW

\* the file is met by both walks
SelectFile ==
    /\ ~ qCalled
    /\ qValidator' = SelectedByValidator(SlashJoin(qRel), qInclude, qExclude)
    /\ qScanner' = shouldIncludeFile(
                       AbsPath(ConfiguredWorkspace \o qRel),
                       [workspaceRoot |-> AbsPath(ConfiguredWorkspace),
                        tsConfig |-> TsConfig(TRUE, qInclude, TRUE, qExclude)])
    /\ qCalled' = TRUE
    /\ UNCHANGED <<qRel, qInclude, qExclude>>
    /\ UNCHANGED exceptQ

NextQ == SelectFile

----------------------------------------------------------------------------
\* Calls of findSimilarPaths (validator.ts:172-183)

SimilarTargets ==
    { <<"c","o","m","p","l","e","t","e","l","y","/","d","i","f","f","e","r","e","n","t","/","p","a","t","h">>,
      <<"f","u","n","c","t","i","o","n","s","/","h","a","n","d","l","e","r","3">>,
      <<"z","z","z","/","q","q","q">>,
      <<"a","p","i","s","/","u","s","e","r","s">>,
      <<"F","u","n","c","t","i","o","n","s","/","H","a","n","d","l","e","r","1">>,
      <<"x">>,
      <<"f","u","n","c","t","i","o","n","s">>,
      <<"r","o","u","t","e","s">> }

SimilarAvailable ==
    { <<  >>,
      << <<"f","u","n","c","t","i","o","n","s","/","h","a","n","d","l","e","r","1">>, <<"a","p","i","s","/","r","o","u","t","e","s">> >>,
      << <<"f","u","n","c","t","i","o","n","s","/","h","a","n","d","l","e","r","1">>, <<"f","u","n","c","t","i","o","n","s","/","h","a","n","d","l","e","r","2">>, <<"f","u","n","c","t","i","o","n","s","/","p","r","o","c","e","s","s","o","r">> >>,
      << <<"a","p","i","s","/","r","o","u","t","e","s">> >>,
      << <<"f","u","n","c","t","i","o","n","s","/","h","a","n","d","l","e","r","1">> >>,
      << <<"z","z","z","/","w","w","w">>, <<"a","p","i","s","/","r","o","u","t","e","s">> >>,
      << <<"a","/","b">>, <<"c","/","d">> >> }

InitM ==
    /\ mTarget \in SimilarTargets
    /\ mAvailable \in SimilarAvailable
    /\ mSimilar = << >>
    /\ mCalled = FALSE
    /\ IdleCore /\ IdleI /\ IdleA /\ IdleE /\ IdleF /\ IdleU /\ IdleC /\ IdleR /\ IdleQ /\ IdleL /\ IdleK /\ IdleN /\ IdleW

\* one call findSimilarPaths(target, availablePaths)
FindSimilarPaths ==
    /\ ~ mCalled
    /\ mSimilar' = findSimilarPaths(mTarget, mAvailable)
    /\ mCalled' = TRUE
    /\ UNCHANGED <<mTarget, mAvailable>>
    /\ UNCHANGED exceptM

NextM == FindSimilarPaths

----------------------------------------------------------------------------
\* Go to definition: SSTDefinitionProvider.resolveHandlerLocation
\* (definitionProvider.ts:43-72)

NoLocation == [uri |-> NULL]

\* new vscode.Location(vscode.Uri.file(handler.filePath), position)
Location(filePath) == [uri |-> filePath]

\* resolveHandlerLocation(handlerPath), handlers being what scanHandlers
\* returned
resolveHandlerLocation(handlerPath, handlers) ==
    LET parts == Split(handlerPath, ".")
    IN IF Len(parts) < 2 THEN NoLocation
       ELSE LET filePath     == parts[1]
                functionName == parts[2]
                h            == FindHandler(handlers, filePath)
            IN IF h = 0 THEN NoLocation
               ELSE IF ~ \E k \in 1..Len(handlers[h].exportedFunctions) :
                             handlers[h].exportedFunctions[k] = functionName
               THEN NoLocation
               ELSE Location(handlers[h].filePath)

LocationPaths ==
    (ExpectedPaths \ { NULL, sEmpty })
    \cup { <<"z","z",".","h">>, <<"f","/","x","/","y",".","h">>,
           <<"f","/","x","/","y",".","h","h">>,
           sFunctionsDetails \o <<".">> \o sHandler }

InitL ==
    /\ lCatalog \in Catalogs
    /\ lPath \in LocationPaths
    /\ lError = NoError
    /\ lLocation = NoLocation
    /\ lValidated = FALSE
    /\ lResolved = FALSE
    /\ IdleCore /\ IdleI /\ IdleA /\ IdleE /\ IdleF /\ IdleU /\ IdleC /\ IdleR /\ IdleQ /\ IdleM /\ IdleK /\ IdleN /\ IdleW

\* the validator's check of the path against the catalog
ValidateHandlerPath ==
    /\ ~ lValidated
    /\ lError' = validateHandlerPath(SourceFile, [expectedPath |-> lPath],
                       Dedup([i \in 1..Len(lCatalog) |-> lCatalog[i].relativePath]),
                       lCatalog)
    /\ lValidated' = TRUE
    /\ UNCHANGED <<lCatalog, lPath, lLocation, lResolved>>
    /\ UNCHANGED exceptL

\* go to definition on the same path
ResolveHandlerLocation ==
    /\ ~ lResolved
    /\ lLocation' = resolveHandlerLocation(lPath, lCatalog)
    /\ lResolved' = TRUE
    /\ UNCHANGED <<lCatalog, lPath, lError, lValidated>>
    /\ UNCHANGED exceptL

NextL == ValidateHandlerPath \/ ResolveHandlerLocation

----------------------------------------------------------------------------
\* Calls of calculateSimilarity (validator.ts:185-201)

SimilarityStrings ==
    { <<>>, <<"u">>, <<"u","p">>, <<"u","p","l">>, <<"f","/","u","p">>, <<"f","/","u","p","l","o","a","d">>, <<"x","u","p","x">>, <<"z","z">> }

InitK ==
    /\ kA \in SimilarityStrings
    /\ kB \in SimilarityStrings
    /\ kC \in SimilarityStrings
    /\ kAB = [n |-> 0, d |-> 1]
    /\ kAC = [n |-> 0, d |-> 1]
    /\ kDoneB = FALSE
    /\ kDoneC = FALSE
    /\ IdleCore /\ IdleI /\ IdleA /\ IdleE /\ IdleF /\ IdleU /\ IdleC /\ IdleR /\ IdleQ /\ IdleM /\ IdleL /\ IdleN /\ IdleW

\* calculateSimilarity(a, b)
CalculateSimilarityB ==
    /\ ~ kDoneB
    /\ kAB' = calculateSimilarity(kA, kB)
    /\ kDoneB' = TRUE
    /\ UNCHANGED <<kA, kB, kC, kAC, kDoneC>>
    /\ UNCHANGED exceptK

\* calculateSimilarity(a, c)
CalculateSimilarityC ==
    /\ ~ kDoneC
    /\ kAC' = calculateSimilarity(kA, kC)
    /\ kDoneC' = TRUE
    /\ UNCHANGED <<kA, kB, kC, kAB, kDoneB>>
    /\ UNCHANGED exceptK

NextK == CalculateSimilarityB \/ CalculateSimilarityC

----------------------------------------------------------------------------
\* Diagnostics and quick fixes of the extension
\* (diagnosticProvider.ts:17-96, codeActionProvider.ts:6-144)

\* a property the code never assigns
Undefined == <<"<undefined>">>

DoubleQuote == "\""

\* document.positionAt(offset) in a document of one line
positionAt(offset) == [line |-> 0, character |-> offset]

\* getStringRange(document, node): node.getStart() to node.getEnd()
getStringRange(node) ==
    [start |-> positionAt(node.start), end |-> positionAt(node.end)]

\* the contexts analyzeHandlerContexts finds in a document whose handler
\* strings are the given ones: each with the string literal it came from
DocumentContexts(contexts) ==
    [i \in 1..Len(contexts) |->
        [type |-> contexts[i].type, position |-> contexts[i].position,
         expectedPath |-> contexts[i].expectedPath,
         node |-> [start |-> contexts[i].position,
                   end |-> contexts[i].position + 2
                           + (IF contexts[i].expectedPath = NULL THEN 0
                              ELSE Len(contexts[i].expectedPath))]]]

\* document.getText(range) for the range of a context's string literal
TextOfRange(contexts, range) ==
    IF \E i \in 1..Len(contexts) :
           getStringRange(contexts[i].node) = range /\ contexts[i].expectedPath # NULL
    THEN LET i == CHOOSE j \in 1..Len(contexts) :
                      getStringRange(contexts[j].node) = range
                      /\ contexts[j].expectedPath # NULL
         IN <<DoubleQuote>> \o contexts[i].expectedPath \o <<DoubleQuote>>
    ELSE << >>

\* contexts.find((ctx) => ctx.expectedPath === error.handlerPath): index or 0
FindContext(contexts, handlerPath) ==
    IF \E i \in 1..Len(contexts) : contexts[i].expectedPath = handlerPath
    THEN CHOOSE i \in 1..Len(contexts) :
             /\ contexts[i].expectedPath = handlerPath
             /\ \A j \in 1..(i - 1) : contexts[j].expectedPath # handlerPath
    ELSE 0

DidYouMean == " Did you mean: "

\* convertValidationErrorToDiagnostic(document, error): the diagnostic in a
\* one-element array, or the empty array for null
convertValidationErrorToDiagnostic(contexts, error) ==
    LET matchingContext == FindContext(contexts, error.handlerPath)
    IN IF matchingContext = 0 THEN << >>
       ELSE << [range |-> getStringRange(contexts[matchingContext].node),
                message |->
                    IF error.hasSuggestions /\ Len(error.suggestions) > 0
                    THEN error.message \o <<DidYouMean>>
                         \o Join(Slice(error.suggestions, 3), <<",", " ">>) \o <<"?">>
                    ELSE error.message,
                severity |-> IF error.type = "invalid-format" THEN "Warning" ELSE "Error",
                source |-> Undefined,
                code |-> Undefined] >>

\* validateDocument(document) for a typescript document: what it hands to
\* diagnosticCollection.set
validateDocument(readable, contexts, availableHandlers) ==
    LET validationErrors == validateFile(SourceFile, readable, contexts, availableHandlers)
        documentContexts == DocumentContexts(contexts)
    IN Flatten([e \in 1..Len(validationErrors) |->
                   convertValidationErrorToDiagnostic(documentContexts, validationErrors[e])])

RECURSIVE SplitCommaSpace(_)
\* s.split(", ")
SplitCommaSpace(s) ==
    IF \E i \in 1..(Len(s) - 1) : s[i] = "," /\ s[i + 1] = " "
    THEN LET k == CHOOSE i \in 1..(Len(s) - 1) :
                     /\ s[i] = "," /\ s[i + 1] = " "
                     /\ \A j \in 1..(i - 1) : ~ (s[j] = "," /\ s[j + 1] = " ")
         IN <<SubSeq(s, 1, k - 1)>> \o SplitCommaSpace(SubSeq(s, k + 2, Len(s)))
    ELSE <<s>>

RECURSIVE Trim(_)
\* s.trim()
Trim(s) ==
    IF Len(s) > 0 /\ s[1] = " " THEN Trim(Tail(s))
    ELSE IF Len(s) > 0 /\ s[Len(s)] = " " THEN Trim(SubSeq(s, 1, Len(s) - 1))
    ELSE s

\* the capture of /<after the marker>([^stop]+)/ in a message: the longest
\* non-empty run after the first marker that holds no stop character, or
\* NULL; with mustStop the stop character has to follow the run
CaptureAfter(message, marker, stop, mustStop) ==
    IF ~ \E i \in 1..Len(message) : message[i] = marker THEN NULL
    ELSE LET at   == CHOOSE i \in 1..Len(message) :
                         message[i] = marker /\ \A j \in 1..(i - 1) : message[j] # marker
             rest == SubSeq(message, at + 1, Len(message))
             upto == IF \E i \in 1..Len(rest) : rest[i] = stop
                     THEN (CHOOSE i \in 1..Len(rest) :
                               rest[i] = stop /\ \A j \in 1..(i - 1) : rest[j] # stop) - 1
                     ELSE Len(rest)
         IN IF upto = 0 \/ (mustStop /\ upto = Len(rest)) THEN NULL
            ELSE SubSeq(rest, 1, upto)

\* a text that is one quoted string: what stands between the quotes, or NULL
QuotedText(currentText) ==
    IF Len(currentText) >= 3 /\ currentText[1] = DoubleQuote
       /\ currentText[Len(currentText)] = DoubleQuote
    THEN SubSeq(currentText, 2, Len(currentText) - 1)
    ELSE NULL

\* currentText.match(/["'`]([^"'`]+)\.([^"'`]+)["'`]/) on one quoted string:
\* the position of the '.' between the two groups (the first group is
\* greedy), or 0 for no match
PathFunctionDot(quoted) ==
    IF quoted = NULL THEN 0
    ELSE IF \E k \in 2..(Len(quoted) - 1) : quoted[k] = "."
         THEN CHOOSE k \in 2..(Len(quoted) - 1) :
                  quoted[k] = "." /\ \A j \in (k + 1)..(Len(quoted) - 1) : quoted[j] # "."
    ELSE 0

\* new vscode.CodeAction(title, QuickFix) with its edit
QuickFix(newText, isPreferred) ==
    [title |-> <<"Change to ">> \o newText, newText |-> newText,
     isPreferred |-> isPreferred]

\* createFileNotFoundFixes(document, range, diagnostic)
createFileNotFoundFixes(currentText, diagnostic) ==
    LET captured == CaptureAfter(diagnostic.message, DidYouMean, "?", TRUE)
        quoted   == QuotedText(currentText)
        dot      == PathFunctionDot(quoted)
    IN IF captured = NULL \/ dot = 0 THEN << >>
       ELSE LET suggestions == SplitCommaSpace(captured)
            IN [i \in 1..MinOf(3, Len(suggestions)) |->
                   QuickFix(<<DoubleQuote>> \o Trim(suggestions[i]) \o <<".">>
                            \o SubSeq(quoted, dot + 1, Len(quoted)) \o <<DoubleQuote>>,
                            i = 1)]

AvailableFunctionsMarker == ".ts\". Available functions: "

\* createFunctionNotFoundFixes(document, range, diagnostic)
createFunctionNotFoundFixes(currentText, diagnostic) ==
    LET captured == CaptureAfter(diagnostic.message, AvailableFunctionsMarker,
                                 DoubleQuote, FALSE)
        quoted   == QuotedText(currentText)
        dot      == PathFunctionDot(quoted)
    IN IF captured = NULL \/ dot = 0 THEN << >>
       ELSE LET availableFunctions == SplitCommaSpace(captured)
            IN [i \in 1..MinOf(5, Len(availableFunctions)) |->
                   QuickFix(<<DoubleQuote>> \o SubSeq(quoted, 1, dot - 1) \o <<".">>
                            \o Trim(availableFunctions[i]) \o <<DoubleQuote>>,
                            Trim(availableFunctions[i]) = sHandler)]

\* invalidPath.replace(/[^a-zA-Z0-9_/-]/g, "") on the modelled alphabet
KeepPathCharacters(s) == SelectSeq(s, LAMBDA c : c \notin { ".", " ", ",", "?" })

\* createFormatFixes(document, range, diagnostic)
createFormatFixes(currentText, diagnostic) ==
    LET invalidPath == QuotedText(currentText)
    IN IF invalidPath = NULL THEN << >>
       ELSE << QuickFix(<<DoubleQuote, "functions/">> \o invalidPath
                        \o <<".handler", DoubleQuote>>, TRUE),
               QuickFix(<<DoubleQuote>> \o invalidPath \o <<".handler", DoubleQuote>>, FALSE),
               QuickFix(<<DoubleQuote, "functions/">> \o KeepPathCharacters(invalidPath)
                        \o <<".handler", DoubleQuote>>, FALSE) >>

\* the quick fixes provideCodeActions pushes for one diagnostic
CodeActionsFor(currentText, diagnostic) ==
    IF diagnostic.source # <<"SST Handler Validation">> THEN << >>
    ELSE IF diagnostic.code = <<"handler-file-not-found">>
         THEN createFileNotFoundFixes(currentText, diagnostic)
    ELSE IF diagnostic.code = <<"handler-function-not-found">>
         THEN createFunctionNotFoundFixes(currentText, diagnostic)
    ELSE IF diagnostic.code = <<"invalid-handler-format">>
         THEN createFormatFixes(currentText, diagnostic)
    ELSE << >>

\* provideCodeActions(document, range, context)
provideCodeActions(contexts, range, diagnostics) ==
    Flatten([i \in 1..Len(diagnostics) |->
                CodeActionsFor(TextOfRange(contexts, range), diagnostics[i])])

LanguageIds == { "typescript", "javascript" }

InitN ==
    /\ nLanguageId \in LanguageIds
    /\ nCatalog \in Catalogs
    /\ nContexts \in ContextLists
    /\ nReadable \in BOOLEAN
    /\ nDiagnostics = << >>
    /\ nCalled = FALSE
    /\ nAsked = 0
    /\ nActions = << >>
    /\ IdleCore /\ IdleI /\ IdleA /\ IdleE /\ IdleF /\ IdleU /\ IdleC /\ IdleR /\ IdleQ /\ IdleM /\ IdleL /\ IdleK /\ IdleW

\* one call validateDocument(document); the diagnostics of other languages'
\* documents are left alone
ValidateDocument ==
    /\ ~ nCalled
    /\ nDiagnostics' = IF nLanguageId # "typescript" THEN nDiagnostics
                       ELSE validateDocument(nReadable, nContexts, nCatalog)
    /\ nCalled' = TRUE
    /\ UNCHANGED <<nLanguageId, nCatalog, nContexts, nReadable, nAsked, nActions>>
    /\ UNCHANGED exceptN

\* the editor asks for the code actions of one published diagnostic, on
\* that diagnostic's range
ProvideCodeActions ==
    /\ nCalled
    /\ nAsked = 0
    /\ \E i \in 1..Len(nDiagnostics) :
          /\ nAsked' = i
          /\ nActions' = provideCodeActions(DocumentContexts(nContexts),
                              nDiagnostics[i].range, <<nDiagnostics[i]>>)
    /\ UNCHANGED <<nLanguageId, nCatalog, nContexts, nReadable, nDiagnostics, nCalled>>
    /\ UNCHANGED exceptN

NextN == ValidateDocument \/ ProvideCodeActions

----------------------------------------------------------------------------
\* Runs of validateDocument started by editor and file events
\* (diagnosticProvider.ts:17-45, 98-105; setupEventHandlers)

\* runs of validateDocument started in one behaviour
MaxRuns == 3

\* one run: pc "scan" before scanHandlers has read the disk, "scanned"
\* while its promise is pending, "done" after diagnosticCollection.set;
\* refresh: the save handler goes on to refreshHandlers after this run
ValidationRun(pc, handlers, diagnostics, refresh) ==
    [pc |-> pc, handlers |-> handlers, diagnostics |-> diagnostics, refresh |-> refresh]

StartedRun(refresh) == ValidationRun("scan", << >>, << >>, refresh)

OneContext(path) == << [type |-> "function", position |-> 10, expectedPath |-> path] >>

EditedTexts == { OneContext(sFuA), OneContext(sFuH) }

WatchedCatalogs == { CatEmpty, CatMain }

InitW ==
    /\ wBuffer \in EditedTexts
    /\ wFile = wBuffer
    /\ wCatalog \in WatchedCatalogs
    /\ wRuns = << >>
    /\ wCollection = << >>
    /\ IdleCore /\ IdleI /\ IdleA /\ IdleE /\ IdleF /\ IdleU /\ IdleC /\ IdleR /\ IdleQ /\ IdleM /\ IdleL /\ IdleK /\ IdleN

\* onDidChangeTextDocument: the text changed in the editor
TextChanged ==
    /\ Len(wRuns) < MaxRuns
    /\ \E text \in EditedTexts \ { wBuffer } : wBuffer' = text
    /\ wRuns' = Append(wRuns, StartedRun(FALSE))
    /\ UNCHANGED <<wFile, wCatalog, wCollection>>
    /\ UNCHANGED exceptW

\* onDidOpenTextDocument
DocumentOpened ==
    /\ Len(wRuns) < MaxRuns
    /\ wRuns' = Append(wRuns, StartedRun(FALSE))
    /\ UNCHANGED <<wBuffer, wFile, wCatalog, wCollection>>
    /\ UNCHANGED exceptW

\* onDidSaveTextDocument: the buffer is on disk; validateDocument, then
\* refreshHandlers
DocumentSaved ==
    /\ Len(wRuns) + 1 < MaxRuns
    /\ wFile' = wBuffer
    /\ wRuns' = Append(wRuns, StartedRun(TRUE))
    /\ UNCHANGED <<wBuffer, wCatalog, wCollection>>
    /\ UNCHANGED exceptW

\* a handler file was created, deleted or changed: the file watcher calls
\* refreshHandlers, whose refreshValidation validates the open document
HandlerFileEvent ==
    /\ Len(wRuns) < MaxRuns
    /\ \E catalog \in WatchedCatalogs \ { wCatalog } : wCatalog' = catalog
    /\ wRuns' = Append(wRuns, StartedRun(FALSE))
    /\ UNCHANGED <<wBuffer, wFile, wCollection>>
    /\ UNCHANGED exceptW

\* the scan of run i reads the disk
RunScans(i) ==
    /\ wRuns[i].pc = "scan"
    /\ wRuns' = [wRuns EXCEPT ![i].pc = "scanned", ![i].handlers = wCatalog]
    /\ UNCHANGED <<wBuffer, wFile, wCatalog, wCollection>>
    /\ UNCHANGED exceptW

\* the run after `await fileScanner.scanHandlers()`, or the refresh it
\* goes on to
RunFinished(i, diagnostics) ==
    /\ wCollection' = diagnostics
    /\ wRuns' = IF wRuns[i].refresh
                THEN Append([wRuns EXCEPT ![i].pc = "done", ![i].diagnostics = diagnostics],
                            StartedRun(FALSE))
                ELSE [wRuns EXCEPT ![i].pc = "done", ![i].diagnostics = diagnostics]
    /\ UNCHANGED <<wBuffer, wFile, wCatalog>>
    /\ UNCHANGED exceptW

\* the scan of run i resolved: validateFile reads the file, the errors are
\* converted on the text in the editor and the diagnostics are set
RunSets(i) ==
    /\ wRuns[i].pc = "scanned"
    /\ RunFinished(i, Flatten(
           [e \in 1..Len(validateFile(SourceFile, TRUE, wFile, wRuns[i].handlers)) |->
               convertValidationErrorToDiagnostic(DocumentContexts(wBuffer),
                   validateFile(SourceFile, TRUE, wFile, wRuns[i].handlers)[e])]))

\* the scan of run i rejected: the catch clears the diagnostics
RunFails(i) ==
    /\ wRuns[i].pc = "scan"
    /\ RunFinished(i, << >>)

RunScan == \E i \in 1..Len(wRuns) : RunScans(i)

RunSet == \E i \in 1..Len(wRuns) : RunSets(i)

RunFail == \E i \in 1..Len(wRuns) : RunFails(i)

NextW ==
    \/ TextChanged
    \/ DocumentOpened
    \/ DocumentSaved
    \/ HandlerFileEvent
    \/ RunScan
    \/ RunSet
    \/ RunFail

----------------------------------------------------------------------------
\* Specifications: one per part of the program

SpecV == InitV /\ [][NextV]_vars

SpecG == InitG /\ [][NextG]_vars

SpecS1 == InitS1 /\ [][NextS1]_vars

SpecS2 == InitS2 /\ [][NextS2]_vars

SpecP == InitP /\ [][NextP]_vars

SpecI == InitI /\ [][NextI]_vars

SpecA == InitA /\ [][NextA]_vars

SpecE == InitE /\ [][NextE]_vars

SpecF == InitF /\ [][NextF]_vars

SpecU == InitU /\ [][NextU]_vars

SpecC == InitC /\ [][NextC]_vars

SpecR == InitR /\ [][NextR]_vars

SpecQ == InitQ /\ [][NextQ]_vars

SpecM == InitM /\ [][NextM]_vars

SpecL == InitL /\ [][NextL]_vars

SpecK == InitK /\ [][NextK]_vars

SpecN == InitN /\ [][NextN]_vars

SpecW == InitW /\ [][NextW]_vars

----------------------------------------------------------------------------
\* Properties of validateFile (checked under SpecV)

HasDot(p) == \E i \in 1..Len(p) : p[i] = "."

\* position of the last '.', stated declaratively
LastDot(p) == CHOOSE i \in 1..Len(p) : p[i] = "." /\ \A j \in 1..Len(p) : p[j] = "." => j <= i

PathPartOf(p) == [i \in 1..(LastDot(p) - 1) |-> p[i]]
FunctionPartOf(p) == [i \in 1..(Len(p) - LastDot(p)) |-> p[LastDot(p) + i]]

CatalogHas(rel) == \E k \in 1..Len(vCatalog) : vCatalog[k].relativePath = rel
CatalogEntry(rel) == vCatalog[CHOOSE k \in 1..Len(vCatalog) : vCatalog[k].relativePath = rel]
Elems(q) == { q[i] : i \in 1..Len(q) }

ContextsWith(p) == { i \in 1..Len(vContexts) : vContexts[i].expectedPath = p }
ErrorsWith(p) == { e \in 1..Len(vErrors) : vErrors[e].handlerPath = p }

\* every context with path p got its own error, all of the given type
OneErrorEach(p, type) ==
    /\ Cardinality(ErrorsWith(p)) = Cardinality(ContextsWith(p))
    /\ \A e \in ErrorsWith(p) : vErrors[e].type = type

ValidPath(p) ==
    /\ HasDot(p)
    /\ CatalogHas(PathPartOf(p))
    /\ FunctionPartOf(p) \in Elems(CatalogEntry(PathPartOf(p)).exportedFunctions)

Returned == vCalled /\ vReadable

\* C1: every context whose expectedPath is a non-null string without a '.'
\* gets exactly one error, of kind invalid-format (never file-not-found),
\* whatever the catalog contains.
C1_NoDotIsInvalidFormat ==
    Returned =>
        \A i \in 1..Len(vContexts) :
            LET p == vContexts[i].expectedPath
            IN (p # NULL /\ ~ HasDot(p)) => OneErrorEach(p, "invalid-format")

Score(target, path) == calculateSimilarity(ToLowerCase(target), ToLowerCase(path))
Qualifies(target, path) == RatGt(Score(target, path), SimilarityThreshold)

GoodSuggestions(target, sugg) ==
    /\ Len(sugg) <= 3
    /\ \A i \in 1..Len(sugg) : CatalogHas(sugg[i]) /\ Qualifies(target, sugg[i])
    /\ \A i, j \in 1..Len(sugg) :
           i < j => /\ sugg[i] # sugg[j]
                    /\ ~ RatGt(Score(target, sugg[j]), Score(target, sugg[i]))
    /\ \A k \in 1..Len(vCatalog) :
           LET q == vCatalog[k].relativePath
           IN (Qualifies(target, q) /\ q \notin Elems(sugg)) =>
                  /\ Len(sugg) = 3
                  /\ \A i \in 1..3 : ~ RatGt(Score(target, q), Score(target, sugg[i]))

\* C2: a context whose path part (before the last '.') is no catalog
\* relativePath yields one file-not-found error whose suggestions are at most
\* 3 catalog paths, each with similarity > 0.4, in descending similarity
\* order, none better left out; functions/uplod against the catalog
\* {functions/upload, functions/details} suggests functions/upload.
C2_FileNotFoundSuggestions ==
    Returned =>
        \A i \in 1..Len(vContexts) :
            LET p == vContexts[i].expectedPath
            IN (p # NULL /\ HasDot(p) /\ ~ CatalogHas(PathPartOf(p))) =>
                  /\ OneErrorEach(p, "file-not-found")
                  /\ \A e \in ErrorsWith(p) :
                        /\ vErrors[e].hasSuggestions
                        /\ GoodSuggestions(PathPartOf(p), vErrors[e].suggestions)
                        /\ (vCatalog = CatExample /\ p = sUplodHandler) =>
                               sFunctionsUpload \in Elems(vErrors[e].suggestions)

\* a file-not-found error with three suggestions while a fourth path qualified
C2_Witness ==
    /\ Returned
    /\ \E e \in 1..Len(vErrors) :
          /\ vErrors[e].type = "file-not-found"
          /\ Len(vErrors[e].suggestions) = 3
          /\ \E k \in 1..Len(vCatalog) :
                /\ vCatalog[k].relativePath \notin Elems(vErrors[e].suggestions)
                /\ Qualifies(PathPartOf(vErrors[e].handlerPath), vCatalog[k].relativePath)

RECURSIVE CommaList(_)
CommaList(names) ==
    IF names = <<>> THEN <<>>
    ELSE IF Len(names) = 1 THEN names[1]
    ELSE CommaList(SubSeq(names, 1, Len(names) - 1)) \o <<",", " ">> \o names[Len(names)]

\* C3: a context whose path part is a catalog relativePath but whose function
\* part is not exported by that entry yields exactly one function-not-found
\* error; its message lists all exported names of the entry and its
\* suggestions are the entry's first 5 exported names in catalog order.
C3_FunctionNotFound ==
    Returned =>
        \A i \in 1..Len(vContexts) :
            LET p == vContexts[i].expectedPath
            IN (p # NULL /\ HasDot(p) /\ CatalogHas(PathPartOf(p)) /\ ~ ValidPath(p)) =>
                  LET names == CatalogEntry(PathPartOf(p)).exportedFunctions
                  IN /\ OneErrorEach(p, "function-not-found")
                     /\ \A e \in ErrorsWith(p) :
                           /\ EndsWith(vErrors[e].message, CommaList(names))
                           /\ vErrors[e].suggestions =
                                  [k \in 1..(IF Len(names) < 5 THEN Len(names) ELSE 5)
                                      |-> names[k]]

\* a function-not-found error for an entry exporting more than 5 functions
C3_Witness ==
    /\ Returned
    /\ \E e \in 1..Len(vErrors) :
          /\ vErrors[e].type = "function-not-found"
          /\ Len(CatalogEntry(PathPartOf(vErrors[e].handlerPath)).exportedFunctions) > 5
          /\ Len(vErrors[e].suggestions) = 5

FailingContexts ==
    { i \in 1..Len(vContexts) :
        vContexts[i].expectedPath # NULL /\ ~ ValidPath(vContexts[i].expectedPath) }

\* C4: validateFile returns one error per failing context and nothing else:
\* valid references and null paths produce no error, and the errors come in
\* the order of the contexts that caused them.
C4_OneErrorPerFailingContext ==
    Returned =>
        /\ Len(vErrors) = Cardinality(FailingContexts)
        /\ \E f \in [1..Len(vErrors) -> 1..Len(vContexts)] :
              /\ \A e \in 1..Len(vErrors) :
                    f[e] \in FailingContexts
                    /\ vErrors[e].handlerPath = vContexts[f[e]].expectedPath
              /\ \A e1, e2 \in 1..Len(vErrors) : e1 < e2 => f[e1] < f[e2]

----------------------------------------------------------------------------
\* Properties of the glob matcher (checked under SpecG)

\* a segment-wise match: cut[i] is the number of path segments consumed by
\* the first i pattern segments; a ** segment takes any number of segments,
\* every other segment exactly one
SegmentWiseMatch(fileParts, patternParts) ==
    \E cut \in [0..Len(patternParts) -> 0..Len(fileParts)] :
        /\ cut[0] = 0
        /\ cut[Len(patternParts)] = Len(fileParts)
        /\ \A i \in 1..Len(patternParts) :
              IF patternParts[i] = StarStar
              THEN cut[i-1] <= cut[i]
              ELSE /\ cut[i] = cut[i-1] + 1
                   /\ matchSinglePart(fileParts[cut[i]], patternParts[i])

GlobCase(path, pattern, expected) ==
    (gPath = SlashJoin(path) /\ gPattern = SlashJoin(pattern)) => gResult = expected

\* C10: matchesPattern matches segment-wise with backtracking: a ** segment
\* consumes zero or more whole path segments wherever it stands, an exhausted
\* pattern needs an exhausted path, an exhausted path needs only ** left;
\* a/**/b matches a/b, a/x/b and a/x/y/b, a/b/c.ts matches a/**/*.ts,
\* a/b.ts does not match **/*.test.ts and x/y/z.ts matches **.
C10_GlobBacktracking ==
    gCalled =>
        /\ gResult = SegmentWiseMatch(Split(gPath, "/"),
                                      Split(NormalizeSlashes(gPattern), "/"))
        /\ GlobCase(<<gA, gB>>, <<gA, StarStar, gB>>, TRUE)
        /\ GlobCase(<<gA, gX, gB>>, <<gA, StarStar, gB>>, TRUE)
        /\ GlobCase(<<gA, gX, gY, gB>>, <<gA, StarStar, gB>>, TRUE)
        /\ GlobCase(<<gA, gB, gCts>>, <<gA, StarStar, gStarTs>>, TRUE)
        /\ GlobCase(<<gA, gBts>>, <<StarStar, gStarTestTs>>, FALSE)
        /\ GlobCase(<<gX, gY, gZts>>, <<StarStar>>, TRUE)

\* a mid-pattern ** that matched zero segments
C10_Witness ==
    /\ gCalled
    /\ gResult
    /\ gPath = SlashJoin(<<gA, gB>>)
    /\ gPattern = SlashJoin(<<gA, StarStar, gB>>)

----------------------------------------------------------------------------
\* Properties of the FileScanner (checked under SpecS1)

IsCall == op \in { "scanHandlers", "findProjectConfig" }

SameOutcome(a, b) == a.status = b.status /\ (a.status = "ok" => a.value = b.value)

\* C5: whatever disk changes and calls came before, every scanHandlers /
\* findProjectConfig call on one instance returns what a freshly constructed
\* scanner on the configured workspace path returns for the disk as it is.
C5_CallsMatchFreshScanner ==
    /\ op = "scanHandlers" => SameOutcome(res, scanHandlers(NewScanner).res)
    /\ op = "findProjectConfig" => SameOutcome(res, findProjectConfig(NewScanner).res)

NoMarkerAnywhere == \A d \in disk.marker : ~ DirExists(d)

\* a directory the walk from root gets to: every directory on the way is
\* readable and none is a dot-directory or node_modules
WalkReaches(root, d) ==
    /\ IsPrefix(root, d)
    /\ DirExists(d)
    /\ \A k \in Len(root)..(Len(d) - 1) :
          /\ DirState(SubSeq(d, 1, k)) = "ok"
          /\ ~ SkippedDir(d[k + 1])

CatalogFiles == { h.filePath : h \in { res.value[i] : i \in 1..Len(res.value) } }

\* C6: scanHandlers never rejects because of a file-system error; an
\* unreadable directory only loses its own entries, so every qualifying
\* handler file of every readable directory is in the catalog; and with no
\* marker file at all the result is the empty list.
C6_ScanNeverRejects ==
    op = "scanHandlers" =>
        /\ res.status = "ok"
        /\ NoMarkerAnywhere => res.value = <<>>
        /\ TruthyPath(s1.workspaceRoot) =>
              \A f \in FileIds :
                  ( /\ disk.files[f].present
                    /\ WalkReaches(Resolve(s1.workspaceRoot), FileTable[f].dir)
                    /\ DirState(FileTable[f].dir) = "ok"
                    /\ shouldIncludeFile(AbsPath(Append(FileTable[f].dir,
                                                        FileTable[f].name)), s1)
                    /\ disk.files[f].exports # <<>> )
                  => \E h \in CatalogFiles :
                         Resolve(h) = Append(FileTable[f].dir, FileTable[f].name)

\* d1 comes before d2 in a depth-first walk that lists entries in readdir order
Position(name) == CHOOSE i \in 1..Len(EntryOrder) : EntryOrder[i] = name

WalkedBefore(d1, d2) ==
    \/ (IsPrefix(d1, d2) /\ d1 # d2)
    \/ \E k \in 1..MinOf(Len(d1), Len(d2)) :
          /\ SubSeq(d1, 1, k - 1) = SubSeq(d2, 1, k - 1)
          /\ d1[k] # d2[k]
          /\ Position(d1[k]) < Position(d2[k])

\* the directories with a marker that a walk from the workspace path gets to
MarkedBelow ==
    { d \in Dirs : d \in disk.marker /\ WalkReaches(ConfiguredWorkspace, d) }

MarkedAbove ==
    { d \in Dirs : /\ d \in disk.marker
                   /\ IsPrefix(d, ConfiguredWorkspace)
                   /\ d # ConfiguredWorkspace
                   /\ DirExists(d) }

\* the root the discovery is to return, as a set: empty when it is null
ExpectedRoot ==
    IF MarkedBelow # {}
    THEN { d \in MarkedBelow : \A e \in MarkedBelow : ~ WalkedBefore(e, d) }
    ELSE { d \in MarkedAbove : \A e \in MarkedAbove : Len(e) <= Len(d) }

ReturnedRoot(s) ==
    IF TruthyPath(s.workspaceRoot) THEN { Resolve(s.workspaceRoot) } ELSE {}

\* C8: root discovery by a new scanner returns the first directory with
\* sst.config.ts in depth-first order from the workspace path (skipping
\* dot-directories and node_modules), else the nearest ancestor of the
\* workspace path that has one, else null.
C8_RootDiscovery ==
    [][ (s1 = NewScanner /\ op' \in { "scanHandlers", "findProjectConfig" }
         /\ res'.status = "ok")
        => ReturnedRoot(s1') = ExpectedRoot ]_vars

CatalogSet(r) ==
    { [filePath |-> r.value[i].filePath,
       relativePath |-> r.value[i].relativePath,
       exportedFunctions |-> r.value[i].exportedFunctions] : i \in 1..Len(r.value) }

\* C9: two scanHandlers calls in a row on the same instance, with no disk
\* change in between, yield the same set of
\* (filePath, relativePath, exportedFunctions) entries.
C9_ScanTwiceSame ==
    [][ (op = "scanHandlers" /\ op' = "scanHandlers" /\ res.status = "ok")
        => (res'.status = "ok" /\ CatalogSet(res') = CatalogSet(res)) ]_vars

----------------------------------------------------------------------------
\* The same statements for the cached-root FileScanner (checked under SpecS2)

ReturnedRoot2(s) == IF TruthyPath(s.sstRoot) THEN { Resolve(s.sstRoot) } ELSE {}

\* the first root discovery of a new instance returns the root described for C8
FirstDiscovery2 ==
    [][ (s2 = NewScanner2 /\ op2' \in { "scanHandlers", "findProjectConfig" })
        => ReturnedRoot2(s2') = ExpectedRoot ]_vars

\* scanHandlers resolves whatever the disk looks like
NeverRejects2 == op2 \in { "scanHandlers", "findProjectConfig" } => res2.status = "ok"

\* every call returns what a new instance returns; the cached sstRoot and
\* the tsConfig kept from an earlier call make this false
CallsMatchFreshScanner2 ==
    /\ op2 = "scanHandlers" => SameOutcome(res2, scanHandlers2(NewScanner2).res)
    /\ op2 = "findProjectConfig" => SameOutcome(res2, findProjectConfig2(NewScanner2).res)

----------------------------------------------------------------------------
\* Properties of validateProject (checked under SpecP)

SingleErrorResult(r) ==
    /\ r.status = "ok"
    /\ r.value.isValid = FALSE
    /\ Len(r.value.errors) = 1
    /\ r.value.handlers = <<>>

\* C7: validateProject never throws; when no marker file can be discovered
\* (the disk has none when the call starts, or findProjectConfig comes back
\* without a config) the result has isValid = false, exactly one error and no
\* handlers; and in every result isValid is true exactly when errors is empty.
C7_ValidateProjectNeverThrows ==
    /\ [](pPc = "done" =>
             /\ pResult.status = "ok"
             /\ pResult.value.isValid <=> (pResult.value.errors = <<>>)
             /\ pConfig.isNull => SingleErrorResult(pResult))
    /\ [][ (pPc \in { "idle", "done" } /\ disk' = disk /\ NoMarkerAnywhere)
           => (pPc' = "done" /\ SingleErrorResult(pResult')) ]_vars

C7_Witness ==
    /\ pPc = "done"
    /\ NoMarkerAnywhere
    /\ pConfig.isNull
    /\ pResult = NoProjectResult


----------------------------------------------------------------------------
\* Properties of shouldIncludeFile (checked under SpecI)

MatchesSome(rel, patterns) ==
    \E p \in Range(patterns) : matchesPattern(SlashJoin(rel), p)

\* excluded when an exclude pattern matches; otherwise, with include
\* patterns, included exactly when one matches; otherwise included
DecidedInOrder(rel, tsConfig) ==
    IF tsConfig.hasExclude /\ MatchesSome(rel, tsConfig.exclude) THEN FALSE
    ELSE IF tsConfig.hasInclude THEN MatchesSome(rel, tsConfig.include)
    ELSE TRUE

\* the name ends in the source extension but not in the declaration suffix
SourceName(rel) ==
    LET name == rel[Len(rel)]
    IN /\ Len(name) >= 3 /\ SubSeq(name, Len(name) - 2, Len(name)) = <<".","t","s">>
       /\ ~ (Len(name) >= 5 /\ SubSeq(name, Len(name) - 4, Len(name)) = <<".","d",".","t","s">>)

----------------------------------------------------------------------------
\* Default patterns (checked under SpecS1)

\* the tsconfig.json loadTSConfig would find now, as parsed, or null
ConfigOnDisk(root) ==
    IF TruthyPath(findTsConfig(root)) THEN ParseTsConfig(findTsConfig(root)) ELSE TsNull

\* C12: when tsconfig.json is absent, unparsable or lacks include / exclude,
\* loading it does not throw and the default patterns are in effect:
\* findProjectConfig reports them and scanHandlers filters with them, so no
\* file matching a default exclude pattern (x.test.ts) is in the catalog
C12_DefaultsInEffect ==
    /\ (op = "findProjectConfig" /\ res.status = "ok" /\ ~ res.value.isNull) =>
            /\ ~ ConfigOnDisk(res.value.rootPath).hasInclude
                    => res.value.includePatterns = DefaultInclude
            /\ ~ ConfigOnDisk(res.value.rootPath).hasExclude
                    => res.value.excludePatterns = DefaultExclude
    /\ (op = "scanHandlers" /\ res.status = "ok" /\ TruthyPath(s1.workspaceRoot)
            /\ ~ ConfigOnDisk(s1.workspaceRoot).hasExclude) =>
            \A i \in 1..Len(res.value) :
                /\ ~ MatchesSome(PathRelative(s1.workspaceRoot, res.value[i].filePath),
                                 DefaultExclude)
                /\ MatchesSome(PathRelative(s1.workspaceRoot, res.value[i].filePath),
                               DefaultInclude)


----------------------------------------------------------------------------
\* Properties of analyzeHandlerContexts (checked under SpecA)

RECURSIVE NodesBelow(_, _)
\* every node of the tree with the offset its statement starts at
NodesBelow(node, base) ==
    << [node |-> node, base |-> base] >>
    \o Flatten([i \in 1..Len(Children(node)) |->
                   NodesBelow(Children(node)[i], BaseOf(node, base))])

NodesOfFile == NodesBelow(aFile, 0)

\* the declarations `name = "<string literal>"` among the nodes, as
\* [name, text] pairs
StringDeclarations(nodes) ==
    { [name |-> nodes[j].node.name, text |-> nodes[j].node.initializer.text] :
        j \in { i \in 1..Len(nodes) :
                    /\ nodes[i].node.kind = "VariableDeclaration"
                    /\ nodes[i].node.initializer.kind = "StringLiteral" } }

\* what a substitution may resolve to: the text of a string literal, a
\* declared string of a bare identifier, otherwise the empty string
SpanValues(expression, declarations) ==
    IF expression.kind = "StringLiteral" THEN { expression.text }
    ELSE IF expression.kind = "Identifier"
            /\ \E d \in declarations : d.name = expression.text
    THEN { d.text : d \in { e \in declarations : e.name = expression.text } }
    ELSE { << >> }

\* head, then for each span in order a resolved value and the span's literal
TemplateValues(template, declarations) ==
    LET V[i \in 0..Len(template.templateSpans)] ==
            IF i = 0 THEN { template.head }
            ELSE { v \o x \o template.templateSpans[i].literal :
                     v \in V[i-1],
                     x \in SpanValues(template.templateSpans[i].expression,
                                      declarations) }
    IN V[Len(template.templateSpans)]

\* the handler-path expression of a context
HandlerExpression(context) ==
    IF context.node.kind = "PropertyAssignment" THEN context.node.initializer
    ELSE context.node

sFunctionsDetailsHandler ==
    <<"f","u","n","c","t","i","o","n","s","/","d","e","t","a","i","l","s",
      ".","h","a","n","d","l","e","r">>

TemplatePathsAsSpecified(declarations) ==
    \A i \in 1..Len(aContexts) :
        HandlerExpression(aContexts[i]).kind = "TemplateExpression" =>
            /\ aContexts[i].expectedPath # NULL
            /\ aContexts[i].expectedPath
                   \in TemplateValues(HandlerExpression(aContexts[i]), declarations)

\* C13: for a handler-path expression that is a template literal with
\* interpolations expectedPath is not null and is the head followed, span by
\* span, by the resolved value of the expression (empty when unresolvable)
\* and the span's literal; with const pathName = "details" the template
\* functions/${pathName}.handler gives functions/details.handler
C13_TemplateLiteralPath ==
    aCalled =>
        /\ TemplatePathsAsSpecified(StringDeclarations(NodesOfFile))
        /\ aFile = SourceFileOf(<<StmtPathName, StmtFunction>>) =>
              /\ Len(aContexts) = 1
              /\ aContexts[1].expectedPath = sFunctionsDetailsHandler

\* the file of the example was analyzed
C13_Witness ==
    /\ aCalled
    /\ aFile = SourceFileOf(<<StmtPathName, StmtFunction>>)
    /\ HandlerExpression(aContexts[1]).kind = "TemplateExpression"
    /\ aContexts[1].expectedPath = sFunctionsDetailsHandler

\* a property assignment whose name is the identifier `name`
IsNamed(property, name) ==
    /\ property.kind = "PropertyAssignment"
    /\ property.nameKind = "Identifier"
    /\ property.name = name

\* <expr>.notify(arg) with arg an object literal with a notifications array
IsNotifyWithArray(node) ==
    /\ node.kind = "CallExpression"
    /\ node.expression.kind = "PropertyAccessExpression"
    /\ node.expression.name = kwNotify
    /\ Len(node.arguments) >= 1
    /\ node.arguments[1].kind = "ObjectLiteralExpression"
    /\ \E k \in 1..Len(node.arguments[1].properties) :
          /\ IsNamed(node.arguments[1].properties[k], kwNotifications)
          /\ node.arguments[1].properties[k].initializer.kind = "ArrayLiteralExpression"

\* the elements of the notifications array of such a call
NotificationElements(node) ==
    LET props == node.arguments[1].properties
    IN props[CHOOSE k \in 1..Len(props) :
                 IsNamed(props[k], kwNotifications)].initializer.elements

\* the positions of the properties of the elements that are object literals:
\* all of them, and those of the `function` properties in array order
ElementPropertyPositions(elements, base) ==
    UNION { { base + elements[i].properties[k].pos :
                k \in 1..Len(elements[i].properties) } :
            i \in { j \in 1..Len(elements) :
                       elements[j].kind = "ObjectLiteralExpression" } }

FunctionPropertyPositions(elements, base) ==
    LET P[i \in 0..Len(elements)] ==
            IF i = 0 THEN << >>
            ELSE IF /\ elements[i].kind = "ObjectLiteralExpression"
                    /\ \E k \in 1..Len(elements[i].properties) :
                          IsNamed(elements[i].properties[k], kwFunctionProp)
            THEN Append(P[i-1],
                        base + elements[i].properties[
                            CHOOSE k \in 1..Len(elements[i].properties) :
                                /\ IsNamed(elements[i].properties[k], kwFunctionProp)
                                /\ \A m \in 1..(k-1) :
                                      ~ IsNamed(elements[i].properties[m], kwFunctionProp)].pos)
            ELSE P[i-1]
    IN P[Len(elements)]

\* the positions of the bucket contexts among the returned ones that lie on
\* a property of an element of the array, in the order returned
BucketPositionsAt(positions) ==
    LET B[i \in 0..Len(aContexts)] ==
            IF i = 0 THEN << >>
            ELSE IF aContexts[i].type = "bucket" /\ aContexts[i].position \in positions
            THEN Append(B[i-1], aContexts[i].position)
            ELSE B[i-1]
    IN B[Len(aContexts)]

OneContextPerFunctionElement(nodes) ==
    \A n \in 1..Len(nodes) :
        IsNotifyWithArray(nodes[n].node) =>
            BucketPositionsAt(
                ElementPropertyPositions(NotificationElements(nodes[n].node),
                                         nodes[n].base))
            = FunctionPropertyPositions(NotificationElements(nodes[n].node),
                                        nodes[n].base)

C15_DocumentOrder ==
    aCalled =>
        \A i, j \in 1..Len(aContexts) :
            i < j => aContexts[i].position < aContexts[j].position


----------------------------------------------------------------------------
\* Properties of the export scan (SpecE)

\* the names one top-level statement exports, as specified: the function-valued
\* exported const/let names, the exported function name, "default" for any
\* default export, the names of an export clause
SpecifiedExportsOf(statement) ==
    CASE statement.kind = "VariableStatement" ->
             IF "export" \in statement.modifiers
             THEN { statement.declarations[i].name :
                      i \in { k \in 1..Len(statement.declarations) :
                                /\ statement.declarations[k].initializer # NoNode
                                /\ isFunction(statement.declarations[k].initializer) } }
             ELSE { }
      [] statement.kind = "FunctionDeclaration" ->
             IF "export" \notin statement.modifiers THEN { }
             ELSE IF "default" \in statement.modifiers THEN { kwDefault }
             ELSE { statement.name }
      [] statement.kind = "ExportAssignment" -> { kwDefault }
      [] statement.kind = "ExportDeclaration" -> Range(statement.names)
      [] OTHER -> { }

SpecifiedExports(sourceFile) ==
    UNION { SpecifiedExportsOf(sourceFile.statements[i].statement) :
              i \in 1..Len(sourceFile.statements) }

\* C16: the export scan result is deduplicated, and contains exactly the
\* exported function-valued const/let names, the exported function names,
\* "default" for every default export (function, identifier or any other
\* expression) and every name of an export clause; nothing that is not exported
C16_ExportScanResult ==
    eCalled =>
        /\ \A i, j \in 1..Len(eExports) : i # j => eExports[i] # eExports[j]
        /\ Range(eExports) = SpecifiedExports(eFile)


----------------------------------------------------------------------------
\* Properties of isFunction (SpecF)

\* a call whose callee is an allowed identifier, or an allowed property of an
\* object whose text is neither a resource namespace access nor a .get( call
IsHandlerFactoryCall(call) ==
    \/ /\ call.expression.kind = "Identifier"
       /\ call.expression.text \in HandlerFactoryNames
    \/ /\ call.expression.kind = "PropertyAccessExpression"
       /\ call.expression.name \in HandlerFactoryProperties
       /\ ~ Includes(getText(call.expression), <<"s","s","t",".","a","w","s",".">>)
       /\ ~ Includes(getText(call.expression), <<".","g","e","t","(">>)

FunctionValuedAsSpecified(node) ==
    \/ node.kind \in { "ArrowFunction", "FunctionExpression" }
    \/ node.kind = "CallExpression" /\ IsHandlerFactoryCall(node)
    \/ /\ node.kind = "AwaitExpression"
       /\ node.expression.kind = "CallExpression"
       /\ IsHandlerFactoryCall(node.expression)

\* C17: an initializer is judged function-valued exactly when it is an arrow
\* function or function expression, or a call (optionally under one await) of
\* an allowed identifier, or of an allowed property name on a callee whose text
\* contains neither "sst.aws." nor ".get("; everything else is judged not
\* function-valued
C17_FunctionValued ==
    fCalled => (fResult <=> FunctionValuedAsSpecified(fNode))


----------------------------------------------------------------------------
\* Properties of analyzeUsageStatistics (SpecU)

\* the expected paths of the contexts of the files that were read, one
\* element per context
PathsMet(files) ==
    LET found == ContextsOfFiles(files)
    IN [i \in 1..Len(found) |-> found[i].context.expectedPath]

\* the number of contexts whose expected path is path
TimesMet(met, path) == Cardinality({ i \in 1..Len(met) : met[i] = path })

CatalogPaths(handlers) ==
    UNION { { HandlerPathOf(handlers[h], handlers[h].exportedFunctions[k]) :
                k \in 1..Len(handlers[h].exportedFunctions) } :
            h \in 1..Len(handlers) }

\* one entry per catalog path and per non-null path met, each with its count
\* and as many locations; the total is the sum
UsagesAsSpecified(stats, catalogPaths, met) ==
    /\ \A i, j \in 1..Len(stats.handlerUsages) :
           i # j => stats.handlerUsages[i].handlerPath # stats.handlerUsages[j].handlerPath
    /\ { stats.handlerUsages[i].handlerPath : i \in 1..Len(stats.handlerUsages) }
          = catalogPaths \cup (Range(met) \ { NULL })
    /\ \A i \in 1..Len(stats.handlerUsages) :
          /\ stats.handlerUsages[i].usageCount
                = TimesMet(met, stats.handlerUsages[i].handlerPath)
          /\ Len(stats.handlerUsages[i].locations) = stats.handlerUsages[i].usageCount
    /\ stats.totalUsages = SumOfCounts(stats.handlerUsages)

\* C18: the result has one usage entry for every path of the catalog and one
\* for every referenced path outside it; an entry's usageCount is the number
\* of contexts with that non-null expectedPath over the walked files, it has
\* exactly usageCount locations, and totalUsages is the sum of the counts
C18_UsageEntries ==
    (uCalled /\ ~ uStats.isNull) =>
        UsagesAsSpecified(uStats, CatalogPaths(uHandlers), PathsMet(uFiles))

\* the entries of mostUsedHandlers and unusedHandlers as specified
RankingAsSpecified(stats, catalogPaths, met) ==
    LET most == stats.mostUsedHandlers
        all  == stats.handlerUsages
    IN /\ Len(most) <= MostUsedLimit
       /\ \A i \in 1..Len(most) :
             /\ most[i].usageCount > 0
             /\ \E j \in 1..Len(all) : all[j] = most[i]
       /\ \A i, j \in 1..Len(most) :
             /\ i < j => most[i].usageCount >= most[j].usageCount
             /\ i # j => most[i].handlerPath # most[j].handlerPath
       /\ \A j \in 1..Len(all) :
             (\A i \in 1..Len(most) : most[i] # all[j])
             => /\ \A i \in 1..Len(most) : all[j].usageCount <= most[i].usageCount
                /\ all[j].usageCount > 0 => Len(most) = MostUsedLimit
       /\ \A i, j \in 1..Len(stats.unusedHandlers) :
             i # j => stats.unusedHandlers[i] # stats.unusedHandlers[j]
       /\ Range(stats.unusedHandlers)
             = { path \in catalogPaths :
                   \E j \in 1..Len(all) : all[j].handlerPath = path /\ all[j].usageCount = 0 }
       /\ \A path \in catalogPaths :
             TimesMet(met, path) = 0
             => /\ path \in Range(stats.unusedHandlers)
                /\ \A i \in 1..Len(most) : most[i].handlerPath # path

\* C19: mostUsedHandlers has at most 10 entries, all used, in non-increasing
\* order of usageCount, and no entry left out counts more than one included;
\* unusedHandlers is exactly the catalog paths whose count is 0; a catalog
\* path never referenced is in unusedHandlers and not in mostUsedHandlers
C19_MostUsedAndUnused ==
    (uCalled /\ ~ uStats.isNull) =>
        RankingAsSpecified(uStats, CatalogPaths(uHandlers), PathsMet(uFiles))

\* a result where more than 10 paths are used with different counts, one of
\* them left out of mostUsedHandlers, and a catalog path is unused
C19_Witness ==
    /\ uCalled /\ ~ uStats.isNull
    /\ Len(SelectSeq(uStats.handlerUsages, LAMBDA h : h.usageCount > 0)) > MostUsedLimit
    /\ Len(uStats.mostUsedHandlers) = MostUsedLimit
    /\ uStats.mostUsedHandlers[1].usageCount > uStats.mostUsedHandlers[MostUsedLimit].usageCount
    /\ uStats.handlerUsages[1].usageCount < uStats.handlerUsages[2].usageCount
    /\ Len(uStats.unusedHandlers) > 0
    /\ Len(uStats.unusedHandlers) < uStats.totalHandlers


----------------------------------------------------------------------------
\* Properties of the command validate (SpecC)

\* C20: run from the command line, with or without --path and --json, the
\* command validate ends with exit code 0 when the validation result has no
\* errors and with exit code 1 when it has at least one
C20_ExitCodeMirrorsValidity ==
    (cCalled /\ cInvocation = "commander" /\ cLoaded) =>
        /\ cExit.ended
        /\ cExit.code = IF Len(cResult.errors) = 0 THEN 0 ELSE 1


----------------------------------------------------------------------------
\* Properties of refreshHandlers (SpecR)

\* every refreshHandlers call has completed
AllRefreshed == \A i \in 1..Len(rCalls) : rCalls[i].pc = "done"

\* the catalog of the disk as it is: what a new scanner's scanHandlers yields
CatalogOfDisk == scanHandlers(NewScanner).res.value

\* C21: when every refreshHandlers call triggered so far has completed,
\* cachedHandlers is the catalog of the disk as it is then: a call that
\* started earlier does not overwrite the result of one that started later
C21_RefreshConverges == AllRefreshed => cachedHandlers = CatalogOfDisk


----------------------------------------------------------------------------
\* Properties of the two file selections (SpecQ)

\* C22: for every root-relative .ts path and every include and exclude
\* pattern list, the validator's selection (matchesGlob) accepts the file
\* exactly when the scanner's selection (shouldIncludeFile) accepts it
C22_SameSelection == qCalled => (qValidator <=> qScanner)


----------------------------------------------------------------------------
\* Properties of findSimilarPaths (SpecM)

\* the segments of a path between its slashes
SegmentsOfPath(p) == { Split(p, "/")[i] : i \in 1..Len(Split(p, "/")) }

\* C23: findSimilarPaths suggests no path that is very different from the
\* target: a path having no segment in common with the target is not
\* returned, so completely/different/path gets no suggestion from
\* [functions/handler1, apis/routes]
C23_NothingForDifferentPaths ==
    mCalled =>
        \A i \in 1..Len(mSimilar) :
            SegmentsOfPath(ToLowerCase(mSimilar[i])) \cap SegmentsOfPath(ToLowerCase(mTarget)) # { }


----------------------------------------------------------------------------
\* Properties of resolveVariableValue (checked under SpecA)

\* of the declarations `name = "<string literal>"` among the nodes, for each
\* name the one that comes first in document order
FirstStringDeclarations(nodes) ==
    { [name |-> nodes[j].node.name, text |-> nodes[j].node.initializer.text] :
        j \in { i \in 1..Len(nodes) :
                    /\ nodes[i].node.kind = "VariableDeclaration"
                    /\ nodes[i].node.initializer.kind = "StringLiteral"
                    /\ \A k \in 1..(i - 1) :
                           ~ /\ nodes[k].node.kind = "VariableDeclaration"
                             /\ nodes[k].node.initializer.kind = "StringLiteral"
                             /\ nodes[k].node.name = nodes[i].node.name } }

\* C24: an interpolated identifier resolves to the string-literal
\* declaration of that name that comes first in document order, at any
\* nesting depth and regardless of scope; declarations with another
\* initializer are ignored and the identifier is unresolved when no
\* declaration qualifies
C24_FirstDeclarationWins ==
    aCalled => TemplatePathsAsSpecified(FirstStringDeclarations(NodesOfFile))


----------------------------------------------------------------------------
\* Properties of matchSinglePart (checked under SpecG)

RECURSIVE WildcardMatchFrom(_, _, _, _)
\* the pattern from position i on matches the rest of s from position j on
\* exactly: '*' stands for any run of characters, every other character,
\* '.' included, for itself
WildcardMatchFrom(pattern, i, s, j) ==
    IF i > Len(pattern) THEN j > Len(s)
    ELSE IF pattern[i] = "*"
         THEN \E k \in j..(Len(s) + 1) : WildcardMatchFrom(pattern, i + 1, s, k)
    ELSE /\ j <= Len(s)
         /\ s[j] = pattern[i]
         /\ WildcardMatchFrom(pattern, i + 1, s, j + 1)

\* a segment-wise match in which every segment other than ** matches one
\* whole path segment
WholeSegmentMatch(fileParts, patternParts) ==
    \E cut \in [0..Len(patternParts) -> 0..Len(fileParts)] :
        /\ cut[0] = 0
        /\ cut[Len(patternParts)] = Len(fileParts)
        /\ \A i \in 1..Len(patternParts) :
              IF patternParts[i] = StarStar
              THEN cut[i-1] <= cut[i]
              ELSE /\ cut[i] = cut[i-1] + 1
                   /\ WildcardMatchFrom(patternParts[i], 1, fileParts[cut[i]], 1)

\* C26: a pattern segment other than ** matches exactly one whole path
\* segment, '*' standing for any run of characters and every other
\* character, '.' included, for itself: *.ts matches b.ts, not a/b.ts and
\* not a segment that only contains a match
C26_WholeSegmentLiteral ==
    gCalled =>
        gResult = WholeSegmentMatch(Split(gPath, "/"),
                                    Split(NormalizeSlashes(gPattern), "/"))


----------------------------------------------------------------------------
\* Properties of resolveHandlerLocation (checked under SpecL)

\* the catalog entry the validator checked the path against
ValidatedEntry ==
    lCatalog[FindHandler(lCatalog, SubSeq(lPath, 1, LastIndexOf(lPath, ".") - 1))]

\* C27: go to definition resolves a handler path as the validator does,
\* splitting at the last '.': whenever the validator has no error for a
\* handler path, relativePaths containing '.' included, the location
\* returned is not null and lies in the file of the catalog entry the
\* validator found
C27_DefinitionAgreesWithValidator ==
    (lValidated /\ lResolved /\ lError = NoError) =>
        /\ lLocation # NoLocation
        /\ lLocation.uri = ValidatedEntry.filePath


----------------------------------------------------------------------------
\* Properties of calculateSimilarity (checked under SpecK)

\* a is a proper substring of b
ProperSubstring(a, b) == Includes(b, a) /\ a # b

\* C25: containment is ranked by closeness of length: for a non-empty a
\* that is a proper substring of b and of c, b shorter than c, a scores
\* higher with b than with c, and neither score exceeds the 1 of identical
\* strings
C25_ContainmentByCloseness ==
    (kDoneB /\ kDoneC /\ Len(kA) > 0 /\ ProperSubstring(kA, kB)
        /\ ProperSubstring(kA, kC) /\ Len(kB) < Len(kC)) =>
        /\ RatGt(kAB, kAC)
        /\ ~ RatGt(kAB, [n |-> 1, d |-> 1])
        /\ ~ RatGt(kAC, [n |-> 1, d |-> 1])


----------------------------------------------------------------------------
\* Properties of the diagnostics and quick fixes (checked under SpecN)

\* the handler references of the document that fail validation
FailingReferences ==
    { i \in 1..Len(nContexts) :
        /\ Truthy(nContexts[i].expectedPath)
        /\ validateHandlerPath(SourceFile, nContexts[i],
               Dedup([k \in 1..Len(nCatalog) |-> nCatalog[k].relativePath]),
               nCatalog) # NoError }

\* C29: for a document with n failing handler references validateDocument
\* publishes n diagnostics, each on the range of a different failing
\* reference, also when failing references carry the same handler path
C29_OneDiagnosticPerReference ==
    (nCalled /\ nLanguageId = "typescript" /\ nReadable) =>
        /\ Len(nDiagnostics) = Cardinality(FailingReferences)
        /\ \A d \in 1..Len(nDiagnostics) :
              \E i \in FailingReferences :
                  nDiagnostics[d].range = getStringRange(DocumentContexts(nContexts)[i].node)
        /\ \A d1, d2 \in 1..Len(nDiagnostics) :
              d1 # d2 => nDiagnostics[d1].range # nDiagnostics[d2].range

\* C30: every published diagnostic carries the source and one of the codes
\* provideCodeActions filters on, and a file-not-found diagnostic with
\* suggestions on a quoted path.function string gets at least one quick fix
C30_DiagnosticsRecognized ==
    /\ \A d \in 1..Len(nDiagnostics) :
          /\ nDiagnostics[d].source = <<"SST Handler Validation">>
          /\ nDiagnostics[d].code \in { <<"handler-file-not-found">>,
                                        <<"handler-function-not-found">>,
                                        <<"invalid-handler-format">> }
    /\ (nAsked # 0
          /\ CaptureAfter(nDiagnostics[nAsked].message, DidYouMean, "?", TRUE) # NULL
          /\ Includes(nDiagnostics[nAsked].message, <<"Handler file not found: \"">>))
        => Len(nActions) >= 1


----------------------------------------------------------------------------
\* Properties of concurrent validateDocument runs (checked under SpecW)

AllRunsDone == Len(wRuns) > 0 /\ \A i \in 1..Len(wRuns) : wRuns[i].pc = "done"

\* C28: when the runs of validateDocument for a document have all
\* completed, the collection holds the diagnostics of the run that started
\* last: an earlier-started run never replaces the result of a later one
C28_LatestRunWins ==
    AllRunsDone => wCollection = wRuns[Len(wRuns)].diagnostics

====
